---- MODULE Spec2Model ----
(***************************************************************************)
(* Avatar resolution of dotbit.js (BitPluginAvatar): URI-scheme dispatch,  *)
(* IPFS gateway translation, ABI decoding of call results, ERC-721 /       *)
(* ERC-1155 verification, metadata fetch and image extraction, with the    *)
(* linkage trail.                                                          *)
(*                                                                         *)
(* Strings are sequences of one-character strings, so that prefixes,       *)
(* substrings, letter case and hex digits are computed, not assumed.       *)
(* A hex string keeps its "0x" prefix, as in the source.                   *)
(***************************************************************************)
EXTENDS Integers, Sequences, FiniteSets, TLC

----------------------------------------------------------------------------
(* Characters and JavaScript string primitives                             *)

UPPER == <<"A","B","C","D","E","F","G","H","I","J","K","L","M",
           "N","O","P","Q","R","S","T","U","V","W","X","Y","Z">>
LOWER == <<"a","b","c","d","e","f","g","h","i","j","k","l","m",
           "n","o","p","q","r","s","t","u","v","w","x","y","z">>
DIGITS == <<"0","1","2","3","4","5","6","7","8","9">>
HEXDIGITS == <<"0","1","2","3","4","5","6","7","8","9","a","b","c","d","e","f">>

IsUpper(c) == \E i \in 1..Len(UPPER) : UPPER[i] = c
IsLowerAF(c) == \E i \in 11..16 : HEXDIGITS[i] = c
IsUpperAF(c) == \E i \in 1..6 : UPPER[i] = c
IsDigit(c) == \E i \in 1..Len(DIGITS) : DIGITS[i] = c

\* String.prototype.toLowerCase, one character / a whole string
lowerChar(c) == IF IsUpper(c) THEN LOWER[CHOOSE i \in 1..Len(UPPER) : UPPER[i] = c] ELSE c
toLowerCase(s) == [i \in 1..Len(s) |-> lowerChar(s[i])]

IsHexDigit(c) == \E i \in 1..Len(HEXDIGITS) : HEXDIGITS[i] = lowerChar(c)
hexVal(c) == (CHOOSE i \in 1..Len(HEXDIGITS) : HEXDIGITS[i] = lowerChar(c)) - 1
digitVal(c) == (CHOOSE i \in 1..Len(DIGITS) : DIGITS[i] = c) - 1

Min(a, b) == IF a < b THEN a ELSE b
Max(a, b) == IF a > b THEN a ELSE b

\* s.substring(from) and s.substring(from, to), indices 0-based as in
\* JavaScript: both bounds are clamped to [0, length] and swapped if reversed
substring(s, from, to) ==
    LET a == Min(Max(from, 0), Len(s))
        b == Min(Max(to, 0), Len(s))
    IN  SubSeq(s, Min(a, b) + 1, Max(a, b))
substringFrom(s, from) == substring(s, from, Len(s))

\* the regular-expression atom ".": any character but a line terminator
IsLineTerminator(c) == c = "\n" \/ c = "\r"
AllDot(s) == \A i \in 1..Len(s) : ~IsLineTerminator(s[i])

\* a case-insensitive literal at the start of s (flag i, anchor ^)
StartsWithCI(s, lit) ==
    Len(s) >= Len(lit) /\ toLowerCase(SubSeq(s, 1, Len(lit))) = toLowerCase(lit)

\* length of the maximal run of [0-9] starting at 1-based position i
DigitRun(s, i) ==
    LET stops == {k \in i..Len(s) : ~IsDigit(s[k])}
    IN  IF stops = {} THEN Max(Len(s) - i + 1, 0)
        ELSE (CHOOSE k \in stops : \A j \in stops : k <= j) - i

\* String.prototype.split on a one-character separator
RECURSIVE split(_, _)
split(s, sep) ==
    IF \E i \in 1..Len(s) : s[i] = sep
    THEN LET k == CHOOSE i \in 1..Len(s) :
                    s[i] = sep /\ \A j \in 1..(i - 1) : s[j] # sep
         IN  <<SubSeq(s, 1, k - 1)>> \o split(SubSeq(s, k + 1, Len(s)), sep)
    ELSE <<s>>

\* index (1-based) of the first occurrence of pat in s, 0 when there is none
IndexOf(s, pat) ==
    LET hits == {i \in 1..(Len(s) - Len(pat) + 1) : SubSeq(s, i, i + Len(pat) - 1) = pat}
    IN  IF hits = {} THEN 0 ELSE CHOOSE i \in hits : \A j \in hits : i <= j

\* s.replace(pat, by) with a string pattern: the first occurrence only
replace(s, pat, by) ==
    LET k == IndexOf(s, pat)
    IN  IF k = 0 THEN s
        ELSE SubSeq(s, 1, k - 1) \o by \o SubSeq(s, k + Len(pat), Len(s))

----------------------------------------------------------------------------
(* @ethersproject/bytes, /bignumber, /strings, /address as the source      *)
(* calls them.  An operator XThrows says when X raises; X is the value     *)
(* otherwise.                                                              *)

S_0x == <<"0","x">>
S_0x0 == <<"0","x","0">>
S_0x00 == <<"0","x","0","0">>

\* isHexString(value): /^0x[0-9A-Fa-f]*$/
isHexString(v) ==
    Len(v) >= 2 /\ SubSeq(v, 1, 2) = S_0x /\ \A i \in 3..Len(v) : IsHexDigit(v[i])
\* isHexString(value, length): also exactly `length` bytes
isHexStringLen(v, n) == isHexString(v) /\ Len(v) = 2 + 2 * n

\* hexlify(value) of a string: a hex string of even length, lower-cased
hexlifyThrows(v) == ~isHexString(v) \/ Len(v) % 2 = 1
hexlify(v) == toLowerCase(v)

\* hexZeroPad(value, length) of a string: left-pads with "0" digits; the
\* string is not re-cased
hexZeroPadThrows(v, n) == ~isHexString(v) \/ Len(v) > 2 * n + 2
hexZeroPad(v, n) ==
    S_0x \o [i \in 1..(2 * n + 2 - Len(v)) |-> "0"] \o substringFrom(v, 2)

\* hexConcat(items): "0x" followed by the digits of each hexlified item
RECURSIVE hexConcatDigits(_)
hexConcatDigits(items) ==
    IF items = <<>> THEN <<>>
    ELSE substringFrom(hexlify(Head(items)), 2) \o hexConcatDigits(Tail(items))
hexConcatThrows(items) == \E i \in 1..Len(items) : hexlifyThrows(items[i])
hexConcat(items) == S_0x \o hexConcatDigits(items)

\* hexDataSlice(data, offset, endOffset) of a string, offsets in bytes
hexDataSliceThrows(data) == ~isHexString(data) \/ Len(data) % 2 = 1
hexDataSlice(data, offset, endOffset) ==
    S_0x \o substring(data, 2 + 2 * offset, 2 + 2 * endOffset)
hexDataSliceFrom(data, offset) == S_0x \o substringFrom(data, 2 + 2 * offset)

\* --- digit-sequence arithmetic behind BN: values of any size, most
\* significant digit first
RECURSIVE LongDiv(_, _, _, _, _)
LongDiv(ds, base, d, rem, q) ==
    IF ds = <<>> THEN [q |-> q, r |-> rem]
    ELSE LET cur == rem * base + Head(ds)
         IN  LongDiv(Tail(ds), base, d, cur % d, Append(q, cur \div d))
IsZeroDigits(ds) == \A i \in 1..Len(ds) : ds[i] = 0
RECURSIVE ConvertBase(_, _, _)
ConvertBase(ds, base, to) ==
    IF IsZeroDigits(ds) THEN <<>>
    ELSE LET dv == LongDiv(ds, base, to, 0, <<>>)
         IN  Append(ConvertBase(dv.q, base, to), dv.r)

\* Digits are handled four at a time (base 10000 and base 65536), which
\* keeps the recursion short.
Pow(b, k) == CASE k = 0 -> 1 [] k = 1 -> b [] k = 2 -> b * b [] k = 3 -> b * b * b
\* the digit values of a numeral, grouped in fours from the right
Group4(vals, b) ==
    LET n == (Len(vals) + 3) \div 4
        pad == 4 * n - Len(vals)
        at(i) == IF i <= pad THEN 0 ELSE vals[i - pad]
    IN  [k \in 1..n |-> at(4 * k - 3) * Pow(b, 3) + at(4 * k - 2) * Pow(b, 2)
                          + at(4 * k - 1) * b + at(4 * k)]
\* and back: four digits per group, leading zeros dropped
Ungroup4(groups, b) ==
    LET all == [i \in 1..(4 * Len(groups)) |->
                   (groups[(i + 3) \div 4] \div Pow(b, 3 - ((i - 1) % 4))) % b]
        nz == {i \in 1..Len(all) : all[i] # 0}
    IN  IF nz = {} THEN <<0>>
        ELSE SubSeq(all, CHOOSE i \in nz : \A j \in nz : i <= j, Len(all))

\* BN.toString(16) and BN.toString(10) of a non-negative value
Numeral(ds, alphabet) == [i \in 1..Len(ds) |-> alphabet[ds[i] + 1]]
bnToString16(decimal) ==
    Numeral(Ungroup4(ConvertBase(Group4([i \in 1..Len(decimal) |-> digitVal(decimal[i])], 10),
                                 10000, 65536), 16), HEXDIGITS)
bnToString10(hexdigits) ==
    Numeral(Ungroup4(ConvertBase(Group4([i \in 1..Len(hexdigits) |-> hexVal(hexdigits[i])], 16),
                                 65536, 10000), 10), DIGITS)

\* toHex(value) of bignumber.ts for a non-negative string: "0x" prefix,
\* zero as "0x00", even length, leading "00" bytes trimmed; no re-casing
trim00(v) ==
    LET n == (Len(v) - 2) \div 2
        keep == {k \in 1..n : k = n \/ v[2 * k + 1] # "0" \/ v[2 * k + 2] # "0"}
        first == CHOOSE k \in keep : \A j \in keep : k <= j
    IN  IF n = 0 THEN v ELSE S_0x \o SubSeq(v, 2 * first + 1, Len(v))
toHexPos(v) ==
    LET p == IF substring(v, 0, 2) # S_0x THEN S_0x \o v ELSE v
        e == IF Len(p) % 2 = 1 THEN S_0x0 \o substringFrom(p, 2) ELSE p
    IN  IF p = S_0x THEN S_0x00 ELSE trim00(e)
Negated(h) == IF h = S_0x00 THEN h ELSE <<"-">> \o h
toHex(v) ==
    IF Len(v) > 0 /\ v[1] = "-" THEN Negated(toHexPos(substringFrom(v, 1)))
    ELSE toHexPos(v)

\* BigNumber.from(string): /^-?0x[0-9a-f]+$/i or /^-?[0-9]+$/, else raises.
\* The value is the BigNumber's _hex field; a rejected argument has none.
IsHexLiteral(v) ==
    LET u == IF Len(v) > 0 /\ v[1] = "-" THEN Tail(v) ELSE v
    IN  Len(u) >= 3 /\ toLowerCase(SubSeq(u, 1, 2)) = S_0x
        /\ \A i \in 3..Len(u) : IsHexDigit(u[i])
IsDecLiteral(v) ==
    LET u == IF Len(v) > 0 /\ v[1] = "-" THEN Tail(v) ELSE v
    IN  Len(u) >= 1 /\ \A i \in 1..Len(u) : IsDigit(u[i])
BigNumberFromThrows(v) == ~IsHexLiteral(v) /\ ~IsDecLiteral(v)
Unsigned(v) == IF Len(v) > 0 /\ v[1] = "-" THEN Tail(v) ELSE v
SignOf(v) == IF Len(v) > 0 /\ v[1] = "-" THEN <<"-">> ELSE <<>>
BigNumberFrom(v) ==
    IF IsHexLiteral(v) THEN toHex(v)
    ELSE IF ~IsDecLiteral(v) THEN <<>>
    ELSE toHex(SignOf(v) \o bnToString16(Unsigned(v)))

\* BigNumber.from(hexDataSlice(..)) / BigNumber.from(await provider.call(..)):
\* the argument is a string, so "0x", which has no digit, is rejected like
\* any other text that is neither literal
BigNumberFromData(v) == BigNumberFrom(v)
BigNumberFromDataThrows(v) == BigNumberFromThrows(v)

\* BigNumber.isZero and BigNumber.toString of a non-negative _hex
isZero_Never(hex) == FALSE
isZero(hex) == \A i \in 3..Len(hex) : hex[i] = "0"
bigToString(hex) == bnToString10(substringFrom(hex, 2))

\* BigNumber.toNumber: raises above 53 bits.  Values are used as byte
\* offsets only; those past every buffer of the model saturate.
SignificantDigits(hex) ==
    LET nz == {i \in 3..Len(hex) : hex[i] # "0"}
    IN  IF nz = {} THEN <<>>
        ELSE SubSeq(hex, CHOOSE i \in nz : \A j \in nz : i <= j, Len(hex))
toNumberThrows(hex) ==
    LET sd == SignificantDigits(hex)
    IN  Len(sd) > 14 \/ (Len(sd) = 14 /\ hexVal(sd[1]) > 1)
Digit4(sd, k) == IF Len(sd) >= k THEN hexVal(sd[Len(sd) - k + 1]) ELSE 0
toNumber(hex) ==
    LET sd == SignificantDigits(hex)
    IN  IF Len(sd) > 4 THEN 65536
        ELSE Digit4(sd, 1) + 16 * Digit4(sd, 2) + 256 * Digit4(sd, 3) + 4096 * Digit4(sd, 4)

----------------------------------------------------------------------------
(* Nullable values: JavaScript null / undefined is Null, a value v is      *)
(* Some(v)                                                                 *)

Null == <<>>
Some(v) == <<v>>
IsNull(n) == n = <<>>
Val(n) == n[1]

----------------------------------------------------------------------------
(* @ethersproject/address: getAddress, and Formatter.callAddress           *)

\* EIP-55 checksums of the addresses the model uses (the hash itself is
\* not modelled).  An address without letters is its own checksum.
Addr_A_lower == <<"0","x","8","b","a","1","f","1","0","9","5","5","1","b","d","4","3","2","8","0","3","0","1","2","6","4","5","a","c","1","3","6","d","d","d","6","4","d","b","a","7","2">>
Addr_A == <<"0","x","8","b","a","1","f","1","0","9","5","5","1","b","D","4","3","2","8","0","3","0","1","2","6","4","5","A","c","1","3","6","d","d","d","6","4","D","B","A","7","2">>
Addr_C_lower == <<"0","x","2","6","5","3","8","5","c","7","f","4","1","3","2","2","2","8","a","0","d","5","4","e","b","1","a","9","e","7","4","6","0","b","9","1","c","0","c","c","6","8">>
Addr_C == <<"0","x","2","6","5","3","8","5","c","7","f","4","1","3","2","2","2","8","A","0","d","5","4","E","B","1","A","9","e","7","4","6","0","b","9","1","c","0","c","C","6","8">>
Addr_D == <<"0","x","1","1","1","1","1","1","1","1","1","1","1","1","1","1","1","1","1","1","1","1","1","1","1","1","1","1","1","1","1","1","1","1","1","1","1","1","1","1","1","1">>
AddressZero == <<"0","x","0","0","0","0","0","0","0","0","0","0","0","0","0","0","0","0","0","0","0","0","0","0","0","0","0","0","0","0","0","0","0","0","0","0","0","0","0","0","0","0">>

getChecksumAddress(address) ==
    LET l == toLowerCase(address)
    IN  CASE l = Addr_A_lower -> Addr_A
          [] l = Addr_C_lower -> Addr_C
          [] \A i \in 3..Len(l) : IsDigit(l[i]) -> l

\* /([A-F].*[a-f])|([a-f].*[A-F])/ : the string mixes the two letter cases
\* (tested on strings of hex digits only, which hold no line terminator)
IsMixedCase(s) ==
    /\ \E i \in 1..Len(s) : IsUpperAF(s[i])
    /\ \E j \in 1..Len(s) : IsLowerAF(s[j])

\* /^(0x)?[0-9a-fA-F]{40}$/
IsAddressShape(s) ==
    LET d == IF Len(s) >= 2 /\ SubSeq(s, 1, 2) = S_0x THEN substringFrom(s, 2) ELSE s
    IN  Len(d) = 40 /\ \A i \in 1..40 : IsHexDigit(d[i])
With0x(s) == IF substring(s, 0, 2) # S_0x THEN S_0x \o s ELSE s

\* getAddress(address); the ICAP form (XE..) is outside the model's inputs
getAddressThrows(s) ==
    \/ ~IsAddressShape(s)
    \/ IsMixedCase(With0x(s)) /\ getChecksumAddress(With0x(s)) # With0x(s)
getAddress(s) == getChecksumAddress(With0x(s))

\* Formatter.callAddress(value): null unless value is exactly 32 bytes;
\* the checksummed last 20 bytes, or null for the zero address
callAddressThrows(v) ==
    isHexStringLen(v, 32) /\ getAddressThrows(hexDataSliceFrom(v, 12))
callAddress(v) ==
    IF ~isHexStringLen(v, 32) THEN Null
    ELSE LET a == getAddress(hexDataSliceFrom(v, 12))
         IN  IF a = AddressZero THEN Null ELSE Some(a)

----------------------------------------------------------------------------
(* @ethersproject/strings: toUtf8String over the ASCII range               *)

\* the printable ASCII characters, code 32 (space) to 126 (~); code 96 is
\* written "grave"
ASCII == <<" ","!","\"","#","$","%","&","'","(",")","*","+",",","-",".","/",
           "0","1","2","3","4","5","6","7","8","9",":",";","<","=",">","?",
           "@","A","B","C","D","E","F","G","H","I","J","K","L","M","N","O",
           "P","Q","R","S","T","U","V","W","X","Y","Z","[","\\","]","^","_",
           "grave","a","b","c","d","e","f","g","h","i","j","k","l","m","n","o",
           "p","q","r","s","t","u","v","w","x","y","z","{","|","}","~">>
charOf(code) ==
    IF code >= 32 /\ code <= 126 THEN ASCII[code - 31]
    ELSE IF code = 10 THEN "\n" ELSE IF code = 13 THEN "\r" ELSE "ctl"
codeOf(c) ==
    IF c = "\n" THEN 10 ELSE IF c = "\r" THEN 13
    ELSE 31 + CHOOSE i \in 1..Len(ASCII) : ASCII[i] = c

byteAt(hex, k) == 16 * hexVal(hex[2 * k + 1]) + hexVal(hex[2 * k + 2])
byteCount(hex) == (Len(hex) - 2) \div 2

\* toUtf8String(bytes): raises on null and on a byte that is no valid
\* UTF-8 lead byte.  Multi-byte sequences are outside the model's inputs:
\* every byte above 0x7f in them stands alone, which is invalid.
toUtf8StringThrows(nb) ==
    \/ IsNull(nb)
    \/ hexlifyThrows(Val(nb))
    \/ \E k \in 1..byteCount(Val(nb)) : byteAt(Val(nb), k) >= 128
toUtf8String(nb) == [k \in 1..byteCount(Val(nb)) |-> charOf(byteAt(Val(nb), k))]

----------------------------------------------------------------------------
(* The module-level functions of the plugin                                *)

WordSize == 32

\* matcherIpfs = /^(ipfs):\/\/(.*)$/i and the list `matchers`; a match is
\* [ok, g1, g2] with the captured groups
NoMatch == [ok |-> FALSE, g1 |-> <<>>, g2 |-> <<>>]
MatchPrefix(s, name, sep) ==
    IF StartsWithCI(s, name \o sep) /\ AllDot(SubSeq(s, Len(name) + Len(sep) + 1, Len(s)))
    THEN [ok |-> TRUE, g1 |-> SubSeq(s, 1, Len(name)),
          g2 |-> SubSeq(s, Len(name) + Len(sep) + 1, Len(s))]
    ELSE NoMatch
matcherIpfs(s) == MatchPrefix(s, <<"i","p","f","s">>, <<":","/","/">>)
matcherHttps(s) == MatchPrefix(s, <<"h","t","t","p","s">>, <<":","/","/">>)
matcherData(s) == MatchPrefix(s, <<"d","a","t","a">>, <<":">>)
\* /^eip155:[0-9]+\/(erc[0-9]+):(.*)$/i
matcherEip155(s) ==
    LET p == Len(<<"e","i","p","1","5","5",":">>)
        n1 == DigitRun(s, p + 1)
        e == p + n1 + 1
        n2 == DigitRun(s, e + 4)
        c == e + 4 + n2
    IN  IF /\ StartsWithCI(s, <<"e","i","p","1","5","5",":">>)
           /\ n1 >= 1
           /\ Len(s) >= e /\ s[e] = "/"
           /\ toLowerCase(SubSeq(s, e + 1, e + 3)) = <<"e","r","c">>
           /\ n2 >= 1
           /\ Len(s) >= c /\ s[c] = ":"
           /\ AllDot(SubSeq(s, c + 1, Len(s)))
        THEN [ok |-> TRUE, g1 |-> SubSeq(s, e + 1, c - 1), g2 |-> SubSeq(s, c + 1, Len(s))]
        ELSE NoMatch
NumMatchers == 4
matchers(i, s) ==
    CASE i = 0 -> matcherHttps(s)
      [] i = 1 -> matcherData(s)
      [] i = 2 -> matcherIpfs(s)
      [] i = 3 -> matcherEip155(s)

\* getIpfsLink(link, gateway)
DefaultGateway == <<"h","t","t","p","s",":","/","/","g","a","t","e","w","a","y",".","i","p","f","s",".","i","o">>
getIpfsLinkThrows(link) == ~StartsWithCI(link, <<"i","p","f","s",":","/","/">>)
getIpfsLink_Strip7(link, gateway) == gateway \o <<"/","i","p","f","s","/">> \o substringFrom(link, 7)
getIpfsLink(link, gateway) ==
    LET rest == IF StartsWithCI(link, <<"i","p","f","s",":","/","/","i","p","f","s","/">>) THEN substringFrom(link, 12)
                ELSE substringFrom(link, 7)
    IN  gateway \o <<"/","i","p","f","s","/">> \o rest

\* _parseBytes(result, start): Null, or Some(hex string)
\* BigNumber.from(hexDataSlice(result, at, at + 32)).toNumber()
WordNumberThrows(word) == BigNumberFromDataThrows(word) \/ toNumberThrows(BigNumberFromData(word))
WordThrows(result, at) == WordNumberThrows(hexDataSlice(result, at, at + WordSize))
WordNumber(result, at) == toNumber(BigNumberFromData(hexDataSlice(result, at, at + WordSize)))
parseOffset(result, start) == WordNumber(result, start)
parseLength(result, start) == WordNumber(result, parseOffset(result, start))
parseBytesThrows(result, start) ==
    /\ result # S_0x
    /\ \/ hexDataSliceThrows(result)
       \/ WordThrows(result, start)
       \/ WordThrows(result, parseOffset(result, start))
BytesFrom(result, from, length) == hexDataSlice(result, from, from + length)
parseBytes_NoSkip(result, start) ==
    IF result = S_0x THEN Null
    ELSE Some(BytesFrom(result, parseOffset(result, start), parseLength(result, start)))
parseBytes(result, start) ==
    IF result = S_0x THEN Null
    ELSE Some(BytesFrom(result, parseOffset(result, start) + WordSize,
                        parseLength(result, start)))

\* _parseString(result, start): Null, or Some(string); never raises
tryUtf8String(nb, otherwise) ==
    IF toUtf8StringThrows(nb) THEN otherwise ELSE Some(toUtf8String(nb))
parseString_Lossy(result, start) ==
    IF parseBytesThrows(result, start) THEN Some(<<>>)
    ELSE tryUtf8String(parseBytes(result, start), Some(<<>>))
parseString(result, start) ==
    IF parseBytesThrows(result, start) THEN Null
    ELSE tryUtf8String(parseBytes(result, start), Null)

----------------------------------------------------------------------------
(* JSON values as fetchJson returns them: [t, s, n, image].  t is the      *)
(* JavaScript type; an object carries its `image` member, Null when it has *)
(* none.                                                                   *)

JNull == [t |-> "null", s |-> <<>>, n |-> 0, image |-> <<>>]
JString(str) == [t |-> "string", s |-> str, n |-> 0, image |-> <<>>]
JNumber(k) == [t |-> "number", s |-> <<>>, n |-> k, image |-> <<>>]
JObject(img) == [t |-> "object", s |-> <<>>, n |-> 0, image |-> img]

\* JavaScript truthiness: !metadata
Falsy_Never(j) == FALSE
Falsy(j) ==
    \/ j.t = "null"
    \/ j.t = "string" /\ j.s = <<>>
    \/ j.t = "number" /\ j.n = 0

RECURSIVE natToString(_)
natToString(k) ==
    IF k < 10 THEN <<DIGITS[k + 1]>> ELSE Append(natToString(k \div 10), DIGITS[(k % 10) + 1])

\* JSON.stringify(metadata); the model's strings need no escaping
RECURSIVE stringify(_)
stringify(j) ==
    CASE j.t = "null" -> <<"n","u","l","l">>
      [] j.t = "string" -> <<"\"">> \o j.s \o <<"\"">>
      [] j.t = "number" -> natToString(j.n)
      [] j.t = "object" ->
            IF IsNull(j.image) THEN <<"{","}">>
            ELSE <<"{","\"","i","m","a","g","e","\"",":">> \o stringify(Val(j.image)) \o <<"}">>

\* metadata.image: the member, or undefined
imageOf(j) == IF j.t = "object" THEN j.image ELSE Null
\* typeof (imageUrl) === 'string'
IsStringValue(n) == ~IsNull(n) /\ Val(n).t = "string"

----------------------------------------------------------------------------
(* State.  Each call of bitAccount.avatar is a run; a run's locals live in *)
(* frame[r], its `linkage` local is a reference into heap.                 *)

RunIds == {1, 2}

VARIABLES
    ipfs,      \* plugin.ipfs, the gateway the constructor stored
    pc,        \* pc[r]: the await a run is suspended at, "idle" or "done"
    linkage,   \* linkage[r]: the array the run's `linkage` const refers to
    heap,      \* heap[a]: contents of linkage array a
    frame,     \* frame[r]: account, avatar, scheme, selector, owner, comps,
               \*           addr, tokenId, metadataUrl
    calls,     \* calls[r]: the external operations the run has issued
    replies,   \* replies[r]: what the collaborators answered, in order
    result     \* result[r]: what the call returned to its caller

vars == <<ipfs, pc, linkage, heap, frame, calls, replies, result>>

\* step kinds (LinkageStep.type)
T_account == <<"a","c","c","o","u","n","t">>
T_url == <<"u","r","l">>
T_data == <<"d","a","t","a">>
T_ipfs == <<"i","p","f","s">>
T_erc721 == <<"e","r","c","7","2","1">>
T_erc1155 == <<"e","r","c","1","1","5","5">>
T_owner == <<"o","w","n","e","r">>
T_balance == <<"b","a","l","a","n","c","e">>
T_metadata_url_base == <<"m","e","t","a","d","a","t","a","-","u","r","l","-","b","a","s","e">>
T_metadata_url_expanded == <<"m","e","t","a","d","a","t","a","-","u","r","l","-","e","x","p","a","n","d","e","d">>
T_metadata_url == <<"m","e","t","a","d","a","t","a","-","u","r","l">>
T_metadata == <<"m","e","t","a","d","a","t","a">>
T_url_ipfs == <<"u","r","l","-","i","p","f","s">>

\* function selectors
Sel_tokenURI == <<"0","x","c","8","7","b","5","6","d","d">>
Sel_uri == <<"0","x","0","e","8","9","3","4","1","c">>
Sel_ownerOf == <<"0","x","6","3","5","2","2","1","1","e">>
Sel_balanceOf == <<"0","x","0","0","f","d","d","5","8","e">>

EmptyFrame ==
    [account |-> <<>>, avatar |-> <<>>, scheme |-> <<>>, selector |-> <<>>,
     owner |-> <<>>, comps |-> <<>>, addr |-> <<>>, tokenId |-> <<>>,
     metadataUrl |-> <<>>]
Pending == [kind |-> "pending", linkage |-> <<>>, url |-> <<>>]

\* this.account of the BitAccount a run is called on
AccountName(r) == IF r = 1 THEN <<"a",".","b","i","t">> ELSE <<"b",".","b","i","t">>

\* A run's state gathered in one record st = [pc, linkage, frame, calls,
\* result]; the operators below transform it the way the code between two
\* awaits does.
push_Unshift(st, type, content) ==
    [st EXCEPT !.linkage = <<[type |-> type, content |-> content]>> \o @]
push(st, type, content) ==
    [st EXCEPT !.linkage = Append(@, [type |-> type, content |-> content])]
Issue_Retry(st, op, to, data, at) ==
    [st EXCEPT !.calls = @ \o <<[op |-> op, to |-> to, data |-> data],
                                [op |-> op, to |-> to, data |-> data]>>,
               !.pc = at]
Issue(st, op, to, data, at) ==
    [st EXCEPT !.calls = Append(@, [op |-> op, to |-> to, data |-> data]),
               !.pc = at]
ReturnNull_Partial(st) ==
    [st EXCEPT !.pc = "done",
               !.result = [kind |-> "null", linkage |-> st.linkage, url |-> <<>>]]
ReturnNull(st) ==
    [st EXCEPT !.pc = "done",
               !.result = [kind |-> "null", linkage |-> <<>>, url |-> <<>>]]
ReturnResolved(st, url) ==
    [st EXCEPT !.pc = "done",
               !.result = [kind |-> "resolved", linkage |-> st.linkage, url |-> url]]
\* catch (error) { return null }
Catch_Rethrow(st) ==
    [st EXCEPT !.pc = "done",
               !.result = [kind |-> "thrown", linkage |-> <<>>, url |-> <<>>]]
Catch(st) == ReturnNull(st)

\* constructor (options?)
Constructor(options) ==
    IF ~IsNull(options) /\ Val(options) # <<>> THEN Val(options) ELSE DefaultGateway

----------------------------------------------------------------------------
(* bitAccount.avatar, cut at its awaits.  A response of a collaborator is  *)
(* [throws, v]: the awaited promise rejects, or resolves to v.             *)

\* lines 78-81: the trail is created, then this.info() is awaited
Enter_Skip(st, name) ==
    [st EXCEPT !.linkage = <<[type |-> T_account, content |-> name]>>, !.pc = "done"]
Enter(st, name) ==
    Issue([st EXCEPT !.linkage = <<[type |-> T_account, content |-> name]>>],
          "info", name, <<>>, "info")

\* lines 81-87: account?.owner_key, then this.records('profile.avatar').
\* resp.v is Null (no account), Some(Null) (no owner_key) or Some(Some(key)).
OnInfo_NoGuard(st, resp) ==
    IF resp.throws THEN Catch(st)
    ELSE Issue([st EXCEPT !.frame.account =
                   IF IsNull(resp.v) \/ IsNull(Val(resp.v)) THEN <<>> ELSE Val(Val(resp.v))],
               "records", <<"p","r","o","f","i","l","e",".","a","v","a","t","a","r">>, <<>>, "records")
OnInfo(st, resp) ==
    IF resp.throws THEN Catch(st)
    ELSE IF IsNull(resp.v) \/ IsNull(Val(resp.v)) \/ Val(Val(resp.v)) = <<>>
    THEN ReturnNull(st)
    ELSE Issue([st EXCEPT !.frame.account = Val(Val(resp.v))],
               "records", <<"p","r","o","f","i","l","e",".","a","v","a","t","a","r">>, <<>>, "records")

\* lines 114-147: the erc721 / erc1155 case up to its first provider.call
ErcVerify_Fallback(st, scheme, match) ==
    IF Len(split(match.g2, "/")) # 2
    THEN ReturnResolved(push(st, T_url, st.frame.avatar), st.frame.avatar)
    ELSE ReturnNull(push(st, scheme, st.frame.avatar))
ErcCall(st, scheme, owner, addr, tokenId) ==
    IF scheme = T_erc721
    THEN IF hexConcatThrows(<<Sel_ownerOf, tokenId>>) THEN Catch(st)
         ELSE Issue(st, "call", addr, hexConcat(<<Sel_ownerOf, tokenId>>), "verify")
    ELSE IF hexZeroPadThrows(owner, WordSize) THEN Catch(st)
    ELSE IF hexConcatThrows(<<Sel_balanceOf, hexZeroPad(owner, WordSize), tokenId>>)
         THEN Catch(st)
    ELSE Issue(st, "call", addr,
               hexConcat(<<Sel_balanceOf, hexZeroPad(owner, WordSize), tokenId>>),
               "verify")
ErcToken(s1, scheme, selector, owner, comps, addr, tokenId) ==
    ErcCall([s1 EXCEPT !.frame.scheme = scheme, !.frame.selector = selector,
                       !.frame.owner = owner, !.frame.comps = comps,
                       !.frame.addr = addr, !.frame.tokenId = tokenId],
            scheme, owner, addr, tokenId)
ErcSplit_FirstTwo(s1, scheme, selector, owner, comps) ==
    IF Len(comps) < 2 THEN ReturnNull(s1)
    ELSE IF getAddressThrows(comps[1]) THEN Catch(s1)
    ELSE IF BigNumberFromThrows(comps[2]) THEN Catch(s1)
    ELSE IF hexZeroPadThrows(BigNumberFrom(comps[2]), WordSize) THEN Catch(s1)
    ELSE ErcToken(s1, scheme, selector, owner, comps, getAddress(comps[1]),
                  hexZeroPad(BigNumberFrom(comps[2]), WordSize))
ErcSplit(s1, scheme, selector, owner, comps) ==
    IF Len(comps) # 2 THEN ReturnNull(s1)
    ELSE IF getAddressThrows(comps[1]) THEN Catch(s1)
    ELSE IF BigNumberFromThrows(comps[2]) THEN Catch(s1)
    ELSE IF hexZeroPadThrows(BigNumberFrom(comps[2]), WordSize) THEN Catch(s1)
    ELSE ErcToken(s1, scheme, selector, owner, comps, getAddress(comps[1]),
                  hexZeroPad(BigNumberFrom(comps[2]), WordSize))
ErcVerify(st, scheme, match) ==
    ErcSplit(push(st, scheme, st.frame.avatar), scheme,
             IF scheme = T_erc721 THEN Sel_tokenURI ELSE Sel_uri,
             st.frame.account, split(match.g2, "/"))

\* lines 102-112: the cases that resolve without a call
HttpsCase_NoStep(st, avatar) == ReturnResolved(st, avatar)
HttpsCase(st, avatar) == ReturnResolved(push(st, T_url, avatar), avatar)
DataCase(st, avatar) == ReturnResolved(push(st, T_data, avatar), avatar)
IpfsCase(st, avatar, gateway) ==
    IF getIpfsLinkThrows(avatar) THEN Catch(push(st, T_ipfs, avatar))
    ELSE ReturnResolved(push(st, T_ipfs, avatar), getIpfsLink(avatar, gateway))

\* lines 93-112 and 217: the loop over matchers and the switch on the scheme
RECURSIVE MatcherLoop(_, _, _)
MatcherLoop(st, i, gateway) ==
    IF i >= NumMatchers THEN ReturnNull(st)
    ELSE
    LET avatar == st.frame.avatar
        match == matchers(i, avatar)
        scheme == toLowerCase(match.g1)
    IN  IF ~match.ok THEN MatcherLoop(st, i + 1, gateway)
        ELSE CASE scheme = <<"h","t","t","p","s">> -> HttpsCase(st, avatar)
               [] scheme = <<"d","a","t","a">> -> DataCase(st, avatar)
               [] scheme = <<"i","p","f","s">> -> IpfsCase(st, avatar, gateway)
               [] scheme = T_erc721 \/ scheme = T_erc1155 ->
                    ErcVerify(st, scheme, match)
               [] OTHER -> MatcherLoop(st, i + 1, gateway)

\* lines 87-93: avatarRecord[0]?.value.  resp.v is the sequence of record
\* values.
OnRecords_LastValue(st, resp, gateway) ==
    IF resp.throws THEN Catch(st)
    ELSE IF resp.v = <<>> \/ resp.v[Len(resp.v)] = <<>> THEN ReturnNull(st)
    ELSE MatcherLoop([st EXCEPT !.frame.avatar = resp.v[Len(resp.v)]], 0, gateway)
OnRecords(st, resp, gateway) ==
    IF resp.throws THEN Catch(st)
    ELSE IF resp.v = <<>> \/ resp.v[1] = <<>> THEN ReturnNull(st)
    ELSE MatcherLoop([st EXCEPT !.frame.avatar = resp.v[1]], 0, gateway)

\* lines 155-160: the metadata-URL call
CallMetadataUrl_RawId(st) ==
    Issue(st, "call", getAddress(st.frame.comps[1]),
          hexConcat(<<st.frame.selector, BigNumberFrom(st.frame.comps[2])>>), "uri")
CallMetadataUrl(st) ==
    IF getAddressThrows(st.frame.comps[1]) THEN Catch(st)
    ELSE IF hexConcatThrows(<<st.frame.selector, st.frame.tokenId>>) THEN Catch(st)
    ELSE Issue(st, "call", getAddress(st.frame.comps[1]),
               hexConcat(<<st.frame.selector, st.frame.tokenId>>), "uri")

\* line 138: owner !== tokenOwner, a strict comparison of the two strings
OwnerDiffers_NullOnly(owner, tokenOwner) == IsNull(tokenOwner)
OwnerDiffers(owner, tokenOwner) == IsNull(tokenOwner) \/ owner # Val(tokenOwner)

\* lines 133-160: the result of ownerOf / balanceOf arrives
OnVerify(st, resp) ==
    IF resp.throws THEN Catch(st)
    ELSE IF st.frame.scheme = T_erc721
    THEN IF callAddressThrows(resp.v) THEN Catch(st)
         ELSE IF OwnerDiffers(st.frame.owner, callAddress(resp.v)) THEN ReturnNull(st)
         ELSE CallMetadataUrl(push(st, T_owner, Val(callAddress(resp.v))))
    ELSE IF BigNumberFromDataThrows(resp.v) THEN Catch(st)
         ELSE IF isZero(BigNumberFromData(resp.v)) THEN ReturnNull(st)
         ELSE CallMetadataUrl(push(st, T_balance, bigToString(BigNumberFromData(resp.v))))

\* lines 166-170: ERC-1155 {id} expansion
RECURSIVE replaceEvery(_, _, _)
replaceEvery(s, pat, by) ==
    IF IndexOf(s, pat) = 0 THEN s
    ELSE SubSeq(s, 1, IndexOf(s, pat) - 1) \o by
            \o replaceEvery(SubSeq(s, IndexOf(s, pat) + Len(pat), Len(s)), pat, by)
ExpandId_Every(metadataUrl, tokenId) ==
    replaceEvery(metadataUrl, <<"{","i","d","}">>, substringFrom(tokenId, 2))
ExpandId(metadataUrl, tokenId) == replace(metadataUrl, <<"{","i","d","}">>, substringFrom(tokenId, 2))

\* lines 160-180: the result of tokenURI / uri arrives
UriFetch(st, metadataUrl) ==
    Issue(push([st EXCEPT !.frame.metadataUrl = metadataUrl], T_metadata_url, metadataUrl),
          "fetchJson", metadataUrl, <<>>, "fetch")
UriGateway(st, expanded, gateway) ==
    IF ~StartsWithCI(expanded, <<"i","p","f","s",":">>) THEN UriFetch(st, expanded)
    ELSE IF getIpfsLinkThrows(expanded) THEN Catch(st)
    ELSE UriFetch(st, getIpfsLink(expanded, gateway))
UriExpand(st, expanded, gateway) ==
    UriGateway(push(st, T_metadata_url_expanded, expanded), expanded, gateway)
UriBase(st, base, gateway) ==
    IF st.frame.scheme = T_erc1155
    THEN UriExpand(push(st, T_metadata_url_base, base),
                   ExpandId(base, st.frame.tokenId), gateway)
    ELSE UriGateway(push(st, T_metadata_url_base, base), base, gateway)
UriParsed(st, parsed, gateway) ==
    IF IsNull(parsed) THEN ReturnNull(st) ELSE UriBase(st, Val(parsed), gateway)
OnUri(st, resp, gateway) ==
    IF resp.throws THEN Catch(st) ELSE UriParsed(st, parseString(resp.v, 0), gateway)

\* line 203: the gateway the image link is translated with
ImageGateway(gateway) == DefaultGateway

\* line 192: /^(https:\/\/|data:)/i
ImageAllowed_HttpsOnly(imageUrl) == StartsWithCI(imageUrl, <<"h","t","t","p","s",":","/","/">>)
ImageAllowed(imageUrl) ==
    StartsWithCI(imageUrl, <<"h","t","t","p","s",":","/","/">>) \/ StartsWithCI(imageUrl, <<"d","a","t","a",":">>)

\* lines 180-208: the metadata document arrives
OnFetch(st, resp, gateway) ==
    IF resp.throws THEN Catch(st)
    ELSE IF Falsy(resp.v) THEN ReturnNull(st)
    ELSE
    LET s1 == push(st, T_metadata, stringify(resp.v))
        image == imageOf(resp.v)
    IN  IF ~IsStringValue(image) THEN ReturnNull(s1)
        ELSE
        LET imageUrl == Val(image).s
        IN  IF ImageAllowed(imageUrl)
            THEN ReturnResolved(push(s1, T_url, imageUrl), imageUrl)
            ELSE IF ~matcherIpfs(imageUrl).ok THEN ReturnNull(s1)
            ELSE LET s2 == push(s1, T_url_ipfs, imageUrl)
                     url == getIpfsLink(imageUrl, ImageGateway(gateway))
                 IN  ReturnResolved(push(s2, T_url, url), url)

----------------------------------------------------------------------------
(* What the collaborators may answer: the account indexer (info, records), *)
(* the chain node (provider.call) and the HTTP service (fetchJson).        *)

Throws == [throws |-> TRUE, v |-> <<>>]
Resolves(v) == [throws |-> FALSE, v |-> v]

\* the part of a dynamic ABI value this model needs to write test buffers:
\* a 32-byte big-endian word, and string = offset word, length word, bytes
\* right-padded to a multiple of 32
Zeros(n) == [i \in 1..n |-> "0"]
Hex2(b) == <<HEXDIGITS[(b \div 16) + 1], HEXDIGITS[(b % 16) + 1]>>
AbiWordDigits(n) == Zeros(2 * WordSize - 4) \o Hex2(n \div 256) \o Hex2(n % 256)
Utf8Digits(str) ==
    [i \in 1..(2 * Len(str)) |-> Hex2(codeOf(str[(i + 1) \div 2]))[2 - (i % 2)]]
AbiWord(n) == S_0x \o AbiWordDigits(n)
AbiAddress(a) == S_0x \o Zeros(24) \o toLowerCase(substringFrom(a, 2))
AbiString(str) ==
    S_0x \o AbiWordDigits(WordSize) \o AbiWordDigits(Len(str)) \o Utf8Digits(str)
         \o Zeros(2 * ((WordSize - (Len(str) % WordSize)) % WordSize))

Gateway_G == <<"h","t","t","p","s",":","/","/","g",".","e","x","a","m","p","l","e">>
\* a Tron owner key: dotbit owner keys are not all Ethereum addresses
Key_Tron == <<"T","F","Y","8","w","x","f","1","T","j","P","N","x","K","w","o","p","1","Z","X","3","J","h","z","w","W","R","E","q","o","w","m","o","F">>

ConstructorOptions == {Null, Some(<<>>), Some(Gateway_G)}

OwnerKeys == {Addr_A_lower, Addr_A, Addr_D, Key_Tron}
InfoResponses ==
    {Throws, Resolves(Null), Resolves(Some(Null))}
        \cup {Resolves(Some(Some(k))) : k \in OwnerKeys}

Avatars ==
    { <<"h","t","t","p","s",":","/","/","a",".","e","x","a","m","p","l","e","/","a",".","p","n","g">>, <<"H","T","T","P","S",":","/","/","A",".","e","x","a","m","p","l","e","/","a",".","p","n","g">>, <<"d","a","t","a",":","i","m","a","g","e","/","p","n","g",";","b","a","s","e","6","4",",","A","A","=","=">>,
      <<"i","p","f","s",":","/","/","Q","m","A">>, <<"i","p","f","s",":","/","/","i","p","f","s","/","Q","m","A">>, <<"I","P","F","S",":","/","/","I","P","F","S","/","Q","m","A">>, <<"h","t","t","p",":","/","/","a",".","e","x","a","m","p","l","e","/","a",".","p","n","g">>,
      <<"h","t","t","p","s",":","/","/","a","\n","b">>,
      <<"e","i","p","1","5","5",":","1","/","e","r","c","7","2","1",":","0","x","2","6","5","3","8","5","c","7","f","4","1","3","2","2","2","8","A","0","d","5","4","E","B","1","A","9","e","7","4","6","0","b","9","1","c","0","c","C","6","8","/","7">>,
      <<"E","I","P","1","5","5",":","1","/","E","R","C","7","2","1",":","0","x","2","6","5","3","8","5","c","7","f","4","1","3","2","2","2","8","a","0","d","5","4","e","b","1","a","9","e","7","4","6","0","b","9","1","c","0","c","c","6","8","/","2","9","2","3","3">>,
      <<"e","i","p","1","5","5",":","1","/","e","r","c","1","1","5","5",":","0","x","2","6","5","3","8","5","c","7","f","4","1","3","2","2","2","8","A","0","d","5","4","E","B","1","A","9","e","7","4","6","0","b","9","1","c","0","c","C","6","8","/","5">>,
      <<"e","i","p","1","5","5",":","1","/","e","r","c","1","1","5","5",":","0","x","2","6","5","3","8","5","c","7","f","4","1","3","2","2","2","8","A","0","d","5","4","E","B","1","A","9","e","7","4","6","0","b","9","1","c","0","c","C","6","8","/","0","x","A","B">>,
      <<"e","i","p","1","5","5",":","1","/","e","r","c","2","0",":","0","x","2","6","5","3","8","5","c","7","f","4","1","3","2","2","2","8","A","0","d","5","4","E","B","1","A","9","e","7","4","6","0","b","9","1","c","0","c","C","6","8","/","1">>,
      <<"e","i","p","1","5","5",":","1","/","e","r","c","7","2","1",":","0","x","2","6","5","3","8","5","c","7","f","4","1","3","2","2","2","8","A","0","d","5","4","E","B","1","A","9","e","7","4","6","0","b","9","1","c","0","c","C","6","8">>,
      <<"e","i","p","1","5","5",":","1","/","e","r","c","7","2","1",":","0","x","2","6","5","3","8","5","c","7","f","4","1","3","2","2","2","8","A","0","d","5","4","E","B","1","A","9","e","7","4","6","0","b","9","1","c","0","c","C","6","8","/","7","/","8">>,
      <<"e","i","p","1","5","5",":","1","/","e","r","c","7","2","1",":","0","x","2","6","5","3","/","7">>,
      <<"e","i","p","1","5","5",":","1","/","e","r","c","7","2","1",":","0","x","2","6","5","3","8","5","C","7","f","4","1","3","2","2","2","8","A","0","d","5","4","E","B","1","A","9","e","7","4","6","0","b","9","1","c","0","c","C","6","8","/","7">>,
      <<"e","i","p","1","5","5",":","1","/","e","r","c","1","1","5","5",":","0","x","2","6","5","3","8","5","c","7","f","4","1","3","2","2","2","8","A","0","d","5","4","E","B","1","A","9","e","7","4","6","0","b","9","1","c","0","c","C","6","8","/","-","5">>,
      <<"e","i","p","1","5","5",":","1","/","e","r","c","1","1","5","5",":","/","5">>,
      <<"e","i","p","1","5","5",":","1","/","e","r","c","1","1","5","5",":","0","x","2","6","5","3","8","5","c","7","f","4","1","3","2","2","2","8","A","0","d","5","4","E","B","1","A","9","e","7","4","6","0","b","9","1","c","0","c","C","6","8","/","s","e","v","e","n">>,
      <<>> }

\* records('profile.avatar') returns up to MaxRecords values
MaxRecords == 2
LaterRecords == {<<"h","t","t","p","s",":","/","/","l","a","t","e","r",".","e","x","a","m","p","l","e","/","b",".","p","n","g">>, <<>>}
RECURSIVE RecordTails(_)
RecordTails(n) ==
    IF n <= 0 THEN {<<>>}
    ELSE {<<>>} \cup {<<v>> \o t : v \in LaterRecords, t \in RecordTails(n - 1)}
RecordResponses ==
    {Throws, Resolves(<<>>)}
        \cup {Resolves(<<a>> \o t) : a \in Avatars, t \in RecordTails(MaxRecords - 1)}

\* answers to ownerOf / balanceOf
VerifyResponses ==
    { Throws, Resolves(S_0x),
      Resolves(AbiAddress(Addr_A)), Resolves(AbiAddress(Addr_D)),
      Resolves(AbiWord(0)), Resolves(AbiWord(1)),
      Resolves(S_0x \o <<"8">> \o Zeros(2 * WordSize - 1)) }
\* answers to tokenURI / uri
UriResponses ==
    { Throws, Resolves(S_0x),
      Resolves(AbiString(<<"i","p","f","s",":","/","/","Q","m","1","2","3">>)),
      Resolves(AbiString(<<"i","p","f","s",":","Q","m","1","2","3">>)),
      Resolves(AbiString(<<"h","t","t","p","s",":","/","/","m",".","e","x","a","m","p","l","e","/","{","i","d","}",".","j","s","o","n">>)),
      Resolves(AbiString(<<"h","t","t","p","s",":","/","/","m",".","e","x","a","m","p","l","e","/","{","i","d","}","/","{","i","d","}">>)),
      Resolves(AbiString(<<"h","t","t","p","s",":","/","/","m",".","e","x","a","m","p","l","e","/","7",".","j","s","o","n">>)),
      Resolves(AbiString(<<"f","o","o">>)),
      Resolves(AbiWord(WordSize)),
      Resolves(AbiWord(WordSize) \o AbiWordDigits(5) \o <<"6","1","6","2">>),
      Resolves(AbiWord(WordSize) \o AbiWordDigits(2) \o <<"f","f","4","1">>) }

FetchResponses ==
    { Throws, Resolves(JNull), Resolves(JNumber(7)), Resolves(JObject(Null)),
      Resolves(JObject(Some(JNumber(5)))),
      Resolves(JObject(Some(JString(<<"h","t","t","p","s",":","/","/","i",".","e","x","a","m","p","l","e","/","i",".","p","n","g">>)))),
      Resolves(JObject(Some(JString(<<"d","a","t","a",":","i","m","a","g","e","/","p","n","g",";","b","a","s","e","6","4",",","A","A","=","=">>)))),
      Resolves(JObject(Some(JString(<<"i","p","f","s",":","/","/","Q","m","I","m","g">>)))),
      Resolves(JObject(Some(JString(<<"I","P","F","S",":","/","/","i","p","f","s","/","Q","m","I","m","g">>)))),
      Resolves(JObject(Some(JString(<<"H","T","T","P","S",":","/","/","I",".","e","x","a","m","p","l","e","/","i",".","p","n","g">>)))),
      Resolves(JObject(Some(JString(<<"h","t","t","p",":","/","/","i",".","e","x","a","m","p","l","e","/","i",".","p","n","g">>)))),
      Resolves(JObject(Some(JString(<<"/","i",".","p","n","g">>)))) }

----------------------------------------------------------------------------
(* The state machine                                                       *)

Cur(r) ==
    [pc |-> pc[r], linkage |-> heap[linkage[r]], frame |-> frame[r],
     calls |-> calls[r], result |-> result[r]]

Store(r, st, resp) ==
    /\ replies' = [replies EXCEPT ![r] = Append(@, resp)]
    /\ pc' = [pc EXCEPT ![r] = st.pc]
    /\ heap' = [heap EXCEPT ![linkage[r]] = st.linkage]
    /\ frame' = [frame EXCEPT ![r] = st.frame]
    /\ calls' = [calls EXCEPT ![r] = st.calls]
    /\ result' = [result EXCEPT ![r] = st.result]
    /\ UNCHANGED <<ipfs, linkage>>

\* line 78: `const linkage = [...]` makes a new array in every call
NewLinkage_Shared(r) == 1
NewLinkage(r) == r

Init ==
    /\ ipfs \in {Constructor(o) : o \in ConstructorOptions}
    /\ pc = [r \in RunIds |-> "idle"]
    /\ linkage = [r \in RunIds |-> r]
    /\ heap = [a \in RunIds |-> <<>>]
    /\ frame = [r \in RunIds |-> EmptyFrame]
    /\ calls = [r \in RunIds |-> <<>>]
    /\ replies = [r \in RunIds |-> <<>>]
    /\ result = [r \in RunIds |-> Pending]

\* bitAccount.avatar() is called
Invoke(r) ==
    /\ pc[r] = "idle"
    /\ LET st == Enter(Cur(r), AccountName(r))
       IN  /\ linkage' = [linkage EXCEPT ![r] = NewLinkage(r)]
           /\ heap' = [heap EXCEPT ![NewLinkage(r)] = st.linkage]
           /\ pc' = [pc EXCEPT ![r] = st.pc]
           /\ calls' = [calls EXCEPT ![r] = st.calls]
           /\ UNCHANGED <<ipfs, frame, replies, result>>

InfoReturns(r) ==
    /\ pc[r] = "info"
    /\ \E resp \in InfoResponses : Store(r, OnInfo(Cur(r), resp), resp)

RecordsReturn(r) ==
    /\ pc[r] = "records"
    /\ \E resp \in RecordResponses : Store(r, OnRecords(Cur(r), resp, ipfs), resp)

VerifyReturns(r) ==
    /\ pc[r] = "verify"
    /\ \E resp \in VerifyResponses : Store(r, OnVerify(Cur(r), resp), resp)

UriReturns(r) ==
    /\ pc[r] = "uri"
    /\ \E resp \in UriResponses : Store(r, OnUri(Cur(r), resp, ipfs), resp)

FetchReturns(r) ==
    /\ pc[r] = "fetch"
    /\ \E resp \in FetchResponses : Store(r, OnFetch(Cur(r), resp, ipfs), resp)

Step(r) ==
    \/ Invoke(r)
    \/ InfoReturns(r)
    \/ RecordsReturn(r)
    \/ VerifyReturns(r)
    \/ UriReturns(r)
    \/ FetchReturns(r)

\* one call of avatar()
Next == Step(1)
Spec == Init /\ [][Next]_vars

----------------------------------------------------------------------------
(* Several calls of avatar() in flight at once: the caller starts one per   *)
(* account and awaits them together; between two awaits of a run any other  *)
(* run may proceed.  The collaborators answer from smaller sets.            *)

ConcurrentInfoResponses == {Throws, Resolves(Some(Null)), Resolves(Some(Some(Addr_A)))}
ConcurrentRecordResponses ==
    { Resolves(<<>>),
      Resolves(<<<<"h","t","t","p","s",":","/","/","a",".","e","x","a","m","p","l","e","/","a",".","p","n","g">>, <<"h","t","t","p","s",":","/","/","l","a","t","e","r",".","e","x","a","m","p","l","e","/","b",".","p","n","g">>>>),
      Resolves(<<<<"i","p","f","s",":","/","/","Q","m","A">>>>),
      Resolves(<<<<"e","i","p","1","5","5",":","1","/","e","r","c","7","2","1",":","0","x","2","6","5","3","8","5","c","7","f","4","1","3","2","2","2","8","A","0","d","5","4","E","B","1","A","9","e","7","4","6","0","b","9","1","c","0","c","C","6","8","/","7">>>>),
      Resolves(<<<<"e","i","p","1","5","5",":","1","/","e","r","c","1","1","5","5",":","0","x","2","6","5","3","8","5","c","7","f","4","1","3","2","2","2","8","A","0","d","5","4","E","B","1","A","9","e","7","4","6","0","b","9","1","c","0","c","C","6","8","/","5">>>>) }
ConcurrentVerifyResponses ==
    {Throws, Resolves(AbiAddress(Addr_A)), Resolves(AbiAddress(Addr_D))}
ConcurrentUriResponses ==
    { Resolves(S_0x), Resolves(AbiString(<<"i","p","f","s",":","/","/","Q","m","1","2","3">>)),
      Resolves(AbiString(<<"h","t","t","p","s",":","/","/","m",".","e","x","a","m","p","l","e","/","{","i","d","}",".","j","s","o","n">>)) }
ConcurrentFetchResponses ==
    { Throws, Resolves(JObject(Null)),
      Resolves(JObject(Some(JString(<<"h","t","t","p","s",":","/","/","i",".","e","x","a","m","p","l","e","/","i",".","p","n","g">>)))),
      Resolves(JObject(Some(JString(<<"i","p","f","s",":","/","/","Q","m","I","m","g">>)))) }

ConcurrentInfoReturns(r) ==
    /\ pc[r] = "info"
    /\ \E resp \in ConcurrentInfoResponses : Store(r, OnInfo(Cur(r), resp), resp)
ConcurrentRecordsReturn(r) ==
    /\ pc[r] = "records"
    /\ \E resp \in ConcurrentRecordResponses : Store(r, OnRecords(Cur(r), resp, ipfs), resp)
ConcurrentVerifyReturns(r) ==
    /\ pc[r] = "verify"
    /\ \E resp \in ConcurrentVerifyResponses : Store(r, OnVerify(Cur(r), resp), resp)
ConcurrentUriReturns(r) ==
    /\ pc[r] = "uri"
    /\ \E resp \in ConcurrentUriResponses : Store(r, OnUri(Cur(r), resp, ipfs), resp)
ConcurrentFetchReturns(r) ==
    /\ pc[r] = "fetch"
    /\ \E resp \in ConcurrentFetchResponses : Store(r, OnFetch(Cur(r), resp, ipfs), resp)

NextConcurrent ==
    \E r \in RunIds :
        \/ Invoke(r)
        \/ ConcurrentInfoReturns(r)
        \/ ConcurrentRecordsReturn(r)
        \/ ConcurrentVerifyReturns(r)
        \/ ConcurrentUriReturns(r)
        \/ ConcurrentFetchReturns(r)
SpecConcurrent == Init /\ [][NextConcurrent]_vars

----------------------------------------------------------------------------
(* Properties                                                              *)

Trail(r) == heap[linkage[r]]
Kinds(t) == [i \in 1..Len(t) |-> t[i].type]
HasStep(t, kind) == \E i \in 1..Len(t) : t[i].type = kind
Done(r) == pc[r] = "done"
Resolved(r) == result[r].kind = "resolved"
Unresolved(r) == result[r].kind = "null"
StartsWith(s, p) == Len(s) >= Len(p) /\ SubSeq(s, 1, Len(p)) = p
Answered(r, k) == Len(replies[r]) >= k /\ ~replies[r][k].throws
\* the positions of the collaborators' answers in replies[r]
AtInfo == 1
AtRecords == 2
AtVerify == 3
AtUri == 4
AtFetch == 5

IsHttpsAvatar(r) == matcherHttps(frame[r].avatar).ok
IsDataAvatar(r) == matcherData(frame[r].avatar).ok

\* C1, as stated: a run whose first profile.avatar value matches https://...
\* or data:... returns a ResolvedAvatar whose linkage is exactly the two steps
\* account, url, and whose url is the record value unchanged.
C1_TwoStepsAccountUrl ==
    \A r \in RunIds :
        Done(r) /\ (IsHttpsAvatar(r) \/ IsDataAvatar(r)) =>
            /\ Resolved(r)
            /\ Kinds(result[r].linkage) = <<T_account, T_url>>
            /\ result[r].url = frame[r].avatar

\* C1, amended: such a run (it has obtained an owner key and the record)
\* returns a ResolvedAvatar of exactly two steps, {account, name} and then
\* {url, value} for an https value but {data, value} for a data: value; the
\* url is the record value unchanged.
C1_TwoStepsUrlOrData ==
    \A r \in RunIds :
        Done(r) /\ (IsHttpsAvatar(r) \/ IsDataAvatar(r)) =>
            /\ Resolved(r)
            /\ result[r].linkage =
                 << [type |-> T_account, content |-> AccountName(r)],
                    [type |-> IF IsHttpsAvatar(r) THEN T_url ELSE T_data,
                     content |-> frame[r].avatar] >>
            /\ result[r].url = frame[r].avatar
            /\ result[r].url = replies[r][AtRecords].v[1]

C1_Witness ==
    \E r \in RunIds :
        Done(r) /\ IsDataAvatar(r) /\ Resolved(r) /\ Len(result[r].linkage) = 2

\* C2, as stated: with ipfsGateway = G every IPFS reference a run translates
\* (a direct ipfs:// avatar, an ipfs: metadata URI, an ipfs:// image) becomes
\* a URL beginning with G/ipfs/; metadata {"image":"ipfs://QmImg"} on the
\* ERC-721 path gives url = G/ipfs/QmImg.
C2_GatewayEverywhere ==
    \A r \in RunIds :
        LET t == Trail(r)
            base == ipfs \o <<"/","i","p","f","s","/">>
        IN  /\ Resolved(r) /\ t[2].type = T_ipfs => StartsWith(result[r].url, base)
            /\ \A i \in 2..Len(t) :
                  t[i].type = T_metadata_url /\ StartsWithCI(t[i - 1].content, <<"i","p","f","s",":">>)
                      => StartsWith(t[i].content, base)
            /\ Resolved(r) /\ HasStep(t, T_url_ipfs) => StartsWith(result[r].url, base)
            /\ /\ Resolved(r)
               /\ frame[r].scheme = T_erc721
               /\ replies[r][AtFetch].v = JObject(Some(JString(<<"i","p","f","s",":","/","/","Q","m","I","m","g">>)))
               => result[r].url = base \o <<"Q","m","I","m","g">>

\* the 20 bytes an address string or a 32-byte call result denotes
AddressBytes(a) == toLowerCase(SubSeq(a, Len(a) - 39, Len(a)))
SameAddress(r) ==
    /\ Answered(r, AtVerify)
    /\ isHexStringLen(replies[r][AtVerify].v, WordSize)
    /\ IsAddressShape(frame[r].owner)
    /\ AddressBytes(replies[r][AtVerify].v) = AddressBytes(frame[r].owner)

\* C3, as stated: on the ERC-721 path the ownership check passes (an owner
\* step is appended and the tokenURI call is issued) whenever the address
\* ownerOf returned and the owner key are the same 20 bytes, whatever the
\* letter case of either string.
C3_SameAddressPasses ==
    \A r \in RunIds :
        frame[r].scheme = T_erc721 /\ SameAddress(r) =>
            /\ HasStep(Trail(r), T_owner)
            /\ Len(calls[r]) >= AtUri

\* C4: a run ends by returning a ResolvedAvatar or null; no failure of a
\* collaborator, of parsing, of decoding or of translation leaves the call
\* as an exception.
C4_NoExceptionEscapes ==
    \A r \in RunIds :
        /\ result[r].kind \in {"pending", "null", "resolved"}
        /\ Done(r) <=> result[r].kind \in {"null", "resolved"}

\* a run whose on-chain call was rejected has returned null
C4_Witness ==
    \E r \in RunIds :
        /\ Done(r) /\ Unresolved(r)
        /\ Len(replies[r]) = AtVerify /\ replies[r][AtVerify].throws

\* what the fetched metadata document says its image is
ImageText(r) == Val(imageOf(replies[r][AtFetch].v)).s
ImageIsDirect(r) ==
    StartsWithCI(ImageText(r), <<"h","t","t","p","s",":","/","/">>) \/ StartsWithCI(ImageText(r), <<"d","a","t","a",":">>)

\* C5: a successful ERC-721 resolution returns the steps account, erc721,
\* owner, metadata-url-base, metadata-url, metadata, url-ipfs, url in this
\* order when the image is an ipfs:// reference, and the same without
\* url-ipfs when the image is an https:// or data: value.
C5_Erc721StepOrder ==
    \A r \in RunIds :
        Resolved(r) /\ frame[r].scheme = T_erc721 =>
            /\ ImageIsDirect(r) =>
                 Kinds(result[r].linkage) =
                     <<T_account, T_erc721, T_owner, T_metadata_url_base,
                       T_metadata_url, T_metadata, T_url>>
            /\ ~ImageIsDirect(r) =>
                 /\ StartsWithCI(ImageText(r), <<"i","p","f","s",":","/","/">>)
                 /\ Kinds(result[r].linkage) =
                     <<T_account, T_erc721, T_owner, T_metadata_url_base,
                       T_metadata_url, T_metadata, T_url_ipfs, T_url>>

C5_Witness ==
    \E r \in RunIds :
        /\ Resolved(r) /\ frame[r].scheme = T_erc721
        /\ ImageText(r) = <<"i","p","f","s",":","/","/","Q","m","I","m","g">>
        /\ Len(result[r].linkage) = 8

CallsWithSelector(r, sel) ==
    {k \in 1..Len(calls[r]) :
        calls[r][k].op = "call" /\ StartsWith(calls[r][k].data, sel)}
Fetches(r) == {k \in 1..Len(calls[r]) : calls[r][k].op = "fetchJson"}

\* C6: an ERC-721 run in which ownerOf returned an address other than the
\* owner key ends Unresolved, its trail never gains an owner or
\* metadata-url-base step, and neither tokenURI nor the metadata fetch is
\* issued.
C6_MismatchStops ==
    \A r \in RunIds :
        /\ frame[r].scheme = T_erc721
        /\ Answered(r, AtVerify)
        /\ isHexStringLen(replies[r][AtVerify].v, WordSize)
        /\ ~SameAddress(r)
        => /\ Done(r) /\ Unresolved(r)
           /\ ~HasStep(Trail(r), T_owner)
           /\ ~HasStep(Trail(r), T_metadata_url_base)
           /\ CallsWithSelector(r, Sel_tokenURI) = {}
           /\ Fetches(r) = {}
           /\ Len(calls[r]) = AtVerify

C6_Witness ==
    \E r \in RunIds :
        /\ frame[r].scheme = T_erc721
        /\ frame[r].owner = Addr_A
        /\ Answered(r, AtVerify)
        /\ replies[r][AtVerify].v = AbiAddress(Addr_D)
        /\ Done(r)

\* the balanceOf answer read as an unsigned integer is zero
BalanceIsZero(r) ==
    \A i \in 3..Len(replies[r][AtVerify].v) : replies[r][AtVerify].v[i] = "0"

\* C7: in an ERC-1155 run the uri call is issued if and only if the decoded
\* balance is nonzero; a zero balance ends the run Unresolved with no balance
\* step, no uri call and no metadata fetch; a nonzero balance appends a
\* balance step before the uri call.
C7_BalanceGatesUri ==
    \A r \in RunIds :
        frame[r].scheme = T_erc1155 =>
            /\ CallsWithSelector(r, Sel_uri) # {}
                 <=> Answered(r, AtVerify) /\ ~BalanceIsZero(r)
            /\ Answered(r, AtVerify) /\ BalanceIsZero(r) =>
                 /\ Done(r) /\ Unresolved(r)
                 /\ ~HasStep(Trail(r), T_balance)
                 /\ Fetches(r) = {}
                 /\ Len(calls[r]) = AtVerify
            /\ Answered(r, AtVerify) /\ ~BalanceIsZero(r) =>
                 /\ Kinds(SubSeq(Trail(r), 1, 3)) = <<T_account, T_erc1155, T_balance>>
                 /\ CallsWithSelector(r, Sel_uri) = {AtUri}
                 /\ replies[r][AtVerify].v = AbiWord(1) => Trail(r)[3].content = <<"1">>

C7_Witness ==
    \E r \in RunIds :
        /\ frame[r].scheme = T_erc1155
        /\ Answered(r, AtVerify) /\ ~BalanceIsZero(r)
        /\ HasStep(Trail(r), T_balance)
        /\ pc[r] = "uri"

IsLowerHex(c) == \E i \in 1..Len(HEXDIGITS) : HEXDIGITS[i] = c
\* the tokenId of the avatar reference as 64 lower-case hex digits
TokenIdHex64(r) == toLowerCase(SubSeq(frame[r].tokenId, 3, Len(frame[r].tokenId)))

\* C8, as stated: on the ERC-1155 path the expanded metadata URL is the
\* decoded uri with {id} replaced by the tokenId as exactly 64 lower-case hex
\* digits without 0x (5 gives 63 zeros and a 5); the trail records
\* metadata-url-base with the unexpanded text and then metadata-url-expanded
\* with the expanded one; the ERC-721 path substitutes nothing and appends no
\* metadata-url-expanded step.
C8_IdExpansion ==
    \A r \in RunIds :
        LET t == Trail(r)
        IN  /\ frame[r].scheme = T_erc721 =>
                 /\ ~HasStep(t, T_metadata_url_expanded)
                 /\ \A i \in 1..Len(t) :
                       t[i].type = T_metadata_url_base /\ ~StartsWithCI(t[i].content, <<"i","p","f","s",":">>)
                       /\ Len(t) > i
                           => t[i + 1] = [type |-> T_metadata_url, content |-> t[i].content]
            /\ frame[r].scheme = T_erc1155 =>
                 \A i \in 1..Len(t) :
                    t[i].type = T_metadata_url_base =>
                       /\ Answered(r, AtUri)
                       /\ t[i].content = Val(parseString(replies[r][AtUri].v, 0))
                       /\ Len(TokenIdHex64(r)) = 64
                       /\ \A k \in 1..64 : IsLowerHex(TokenIdHex64(r)[k])
                       /\ Len(t) > i
                       /\ t[i + 1] =
                            [type |-> T_metadata_url_expanded,
                             content |-> replace(t[i].content, <<"{","i","d","}">>, TokenIdHex64(r))]
                       /\ \A k \in 1..Len(t[i + 1].content) :
                             ~IsUpperAF(t[i + 1].content[k])
                       /\ frame[r].comps[2] = <<"5">> =>
                             TokenIdHex64(r) = Zeros(63) \o <<"5">>

\* C9, as stated: when the fetched metadata document has no image field or a
\* non-string image, the outcome is Unresolved, the trail then holds
\* metadata-url and metadata steps but no url step, and it is not returned.
NoStringImage(r) ==
    Answered(r, AtFetch) /\ ~IsStringValue(imageOf(replies[r][AtFetch].v))
C9_NoImageUnresolved ==
    \A r \in RunIds :
        NoStringImage(r) =>
            /\ Done(r) /\ Unresolved(r) /\ result[r].linkage = <<>>
            /\ HasStep(Trail(r), T_metadata_url)
            /\ HasStep(Trail(r), T_metadata)
            /\ ~HasStep(Trail(r), T_url)

\* C9, amended: the same, where the document is a truthy JSON value; a falsy
\* document (null or an empty body, 0, the empty string) also ends the run
\* Unresolved, with a metadata-url step but neither a metadata nor a url step.
TruthyDocument(r) ==
    LET j == replies[r][AtFetch].v
    IN  ~(j.t = "null" \/ (j.t = "number" /\ j.n = 0) \/ (j.t = "string" /\ j.s = <<>>))
C9_NoImageUnresolvedTruthy ==
    \A r \in RunIds :
        NoStringImage(r) =>
            /\ Done(r) /\ Unresolved(r) /\ result[r].linkage = <<>>
            /\ HasStep(Trail(r), T_metadata_url)
            /\ HasStep(Trail(r), T_metadata) <=> TruthyDocument(r)
            /\ TruthyDocument(r) =>
                 Trail(r)[Len(Trail(r))] =
                     [type |-> T_metadata, content |-> stringify(replies[r][AtFetch].v)]
            /\ ~HasStep(Trail(r), T_url)

C9_Witness ==
    \E r \in RunIds :
        /\ NoStringImage(r)
        /\ replies[r][AtFetch].v = JObject(Null)
        /\ Done(r) /\ HasStep(Trail(r), T_metadata)

\* Every use a run has made of getIpfsLink, read off its trail: the link, the
\* gateway, whether the call raised, and the URL it returned.
IpfsUse(link, gateway, raised, out) ==
    [link |-> link, gateway |-> gateway, raised |-> raised, out |-> out]
IpfsUses(r) ==
    LET t == Trail(r)
    IN  {IpfsUse(t[2].content, ipfs, FALSE, result[r].url) :
            i \in {i \in {2} : Len(t) >= 2 /\ t[2].type = T_ipfs /\ Resolved(r)}}
        \cup
        {IpfsUse(t[i].content, ipfs, Len(t) = i, IF Len(t) > i THEN t[i + 1].content ELSE <<>>) :
            i \in {i \in 1..Len(t) :
                     /\ t[i].type = IF frame[r].scheme = T_erc1155
                                    THEN T_metadata_url_expanded ELSE T_metadata_url_base
                     /\ StartsWithCI(t[i].content, <<"i","p","f","s",":">>)
                     /\ pc[r] # "uri"}}
        \cup
        {IpfsUse(t[i].content, DefaultGateway, FALSE, result[r].url) :
            i \in {i \in 1..Len(t) : t[i].type = T_url_ipfs}}

\* no call of avatar() has been made yet
NoRunStarted == \A r \in RunIds : pc[r] = "idle"

\* Links handed to getIpfsLink directly, before any run starts, besides those
\* the runs hand to it.
IpfsLinks ==
    { <<"i","p","f","s",":","/","/","i","p","f","s","/","Q","m","A">>, <<"i","p","f","s",":","/","/","Q","m","A">>, <<"I","P","F","S",":","/","/","i","p","f","s","/","Q","m","A">>, <<"I","p","f","s",":","/","/","Q","m","A">>,
      <<"i","p","f","s",":","/","/","i","p","f","s","/">>, <<"i","p","f","s",":","/","/","i","p","f","s">>, <<"i","p","f","s",":","/","/">>, <<"i","p","f","s",":","/","Q","m","A">>, <<"i","p","f","s",":","Q","m","A">>,
      <<"h","t","t","p","s",":","/","/","a",".","e","x","a","m","p","l","e","/","i","p","f","s","/","Q","m","A">>, <<"/","i","p","f","s","/","Q","m","A">>, <<>> }
\* What is said of one call: the longer prefix is stripped first, else the
\* shorter one, else the call raises; prefixes are compared literally, or
\* without regard to letter case when anyCase.
IpfsContract(link, gateway, raised, out, anyCase) ==
    LET has(p) == IF anyCase THEN StartsWithCI(link, p) ELSE StartsWith(link, p)
    IN  IF has(<<"i","p","f","s",":","/","/","i","p","f","s","/">>)
        THEN ~raised /\ out = gateway \o <<"/","i","p","f","s","/">> \o SubSeq(link, 13, Len(link))
        ELSE IF has(<<"i","p","f","s",":","/","/">>)
        THEN ~raised /\ out = gateway \o <<"/","i","p","f","s","/">> \o SubSeq(link, 8, Len(link))
        ELSE raised
IpfsContractAll(r, anyCase) ==
    /\ \A u \in IpfsUses(r) :
          IpfsContract(u.link, u.gateway, u.raised, u.out, anyCase)
    /\ \A link \in (IF NoRunStarted THEN IpfsLinks ELSE {}) \cup {frame[r].avatar} :
       \A gateway \in {DefaultGateway, ipfs} :
          IpfsContract(link, gateway, getIpfsLinkThrows(link),
                       IF getIpfsLinkThrows(link) THEN <<>> ELSE getIpfsLink(link, gateway),
                       anyCase)

\* C10, as stated: getIpfsLink(link, gateway) is gateway + '/ipfs/' + cid for
\* link = 'ipfs://ipfs/' + cid and for link = 'ipfs://' + cid (the longer
\* prefix first), and raises for every link that starts with neither.
C10_LiteralPrefixes ==
    \A r \in RunIds : IpfsContractAll(r, FALSE)

\* C10, amended: the same with both prefixes compared without regard to
\* letter case; a run in which the call raised has returned null.
C10_PrefixesAnyCase ==
    \A r \in RunIds :
        /\ IpfsContractAll(r, TRUE)
        /\ \A u \in IpfsUses(r) : u.raised => Done(r) /\ Unresolved(r)

C10_Witness ==
    \E r \in RunIds : \E u \in IpfsUses(r) :
        StartsWith(u.link, <<"i","p","f","s",":","/","/","i","p","f","s","/">>) /\ ~u.raised /\ Done(r)

----------------------------------------------------------------------------
\* everything that belongs to run r is left as it is by a step
RunUnchanged(r) ==
    /\ pc'[r] = pc[r]
    /\ result'[r] = result[r]
    /\ calls'[r] = calls[r]
    /\ replies'[r] = replies[r]
    /\ frame'[r] = frame[r]
    /\ linkage'[r] = linkage[r]
    /\ heap'[linkage'[r]] = heap[linkage[r]]

\* C11, as stated: Unresolved is terminal, and every run that ends Unresolved
\* has first completed the fetch of the account's avatar record.
C11_UnresolvedAfterRecord ==
    \A r \in RunIds : Unresolved(r) => Done(r) /\ Len(replies[r]) >= AtRecords

\* C11, amended: Unresolved is terminal (once a run has returned, no step of
\* any run changes its state, its trail or its list of external calls), and
\* it is never entered before the account-info fetch has ended; a run whose
\* info fetch fails or yields no owner key ends Unresolved without fetching
\* the avatar record.
C11_UnresolvedTerminal ==
    /\ [](\A r \in RunIds :
            /\ Unresolved(r) => Done(r)
            /\ Done(r) => /\ Len(replies[r]) >= AtInfo
                          /\ Len(calls[r]) = Len(replies[r])
            /\ Unresolved(r) /\ Len(replies[r]) = AtInfo =>
                 \/ replies[r][AtInfo].throws
                 \/ IsNull(replies[r][AtInfo].v)
                 \/ IsNull(Val(replies[r][AtInfo].v)))
    /\ [][\A r \in RunIds : Done(r) => RunUnchanged(r)]_vars

\* one run has ended Unresolved on its info fetch while the other goes on
C11_Witness ==
    /\ Unresolved(1) /\ Len(replies[1]) = AtInfo
    /\ pc[2] = "fetch"

\* the info fetch answered with no account, or an account without owner key
NoOwnerKey(r) ==
    /\ Answered(r, AtInfo)
    /\ \/ IsNull(replies[r][AtInfo].v)
       \/ IsNull(Val(replies[r][AtInfo].v))
       \/ Val(Val(replies[r][AtInfo].v)) = <<>>

\* C12: when the account-info fetcher returns no account or an account
\* without an owner key the run ends Unresolved at once: the info fetch is
\* the only external operation of the run, so no on-chain call and no
\* metadata fetch is issued, and the trail holds the account step alone.
C12_NoOwnerKeyEnds ==
    \A r \in RunIds :
        NoOwnerKey(r) =>
            /\ Done(r) /\ Unresolved(r)
            /\ Len(calls[r]) = AtInfo /\ calls[r][AtInfo].op = "info"
            /\ \A k \in 1..Len(calls[r]) : calls[r][k].op \notin {"call", "fetchJson"}
            /\ Kinds(Trail(r)) = <<T_account>>

\* an account without owner key
C12_Witness ==
    \E r \in RunIds :
        /\ NoOwnerKey(r) /\ ~IsNull(replies[r][AtInfo].v)
        /\ Done(r)

\* A run executed alone: avatar() is entered from FreshRun and then resumed
\* with one answer per await.
FreshRun ==
    [pc |-> "idle", linkage |-> <<>>, frame |-> EmptyFrame, calls |-> <<>>,
     result |-> Pending]
Resume(st, resp, gateway) ==
    CASE st.pc = "info" -> OnInfo(st, resp)
      [] st.pc = "records" -> OnRecords(st, resp, gateway)
      [] st.pc = "verify" -> OnVerify(st, resp)
      [] st.pc = "uri" -> OnUri(st, resp, gateway)
      [] st.pc = "fetch" -> OnFetch(st, resp, gateway)
      [] OTHER -> st

\* an answer of the record fetch with the sequence cut down to its first value
FirstRecordOnly(resp) ==
    IF ~resp.throws /\ resp.v # <<>> THEN Resolves(<<resp.v[1]>>) ELSE resp

\* C13: the outcome of a run depends only on the first value of the
\* profile.avatar sequence: the state the run is in once the record fetch has
\* returned (outcome, trail, external calls, avatar) is the state the first
\* value alone gives, and everything later follows from that state; when the
\* first value is empty the run ends Unresolved after the record fetch, and
\* no later record is ever taken for the avatar.
C13_FirstRecordOnly ==
    /\ [](\A r \in RunIds :
            Answered(r, AtRecords) =>
                LET v == replies[r][AtRecords].v
                IN  /\ v = <<>> \/ v[1] = <<>> =>
                          Done(r) /\ Unresolved(r) /\ Len(calls[r]) = AtRecords
                    /\ v # <<>> /\ v[1] # <<>> => frame[r].avatar = v[1]
                    /\ Resolved(r) /\ Len(v) > 1 => result[r].url \notin LaterRecords)
    /\ [][\A r \in RunIds :
            pc[r] = "records" /\ Len(replies'[r]) = AtRecords =>
                Cur(r)' = OnRecords(Cur(r), FirstRecordOnly(replies'[r][AtRecords]), ipfs)]_vars

\* the first value does not resolve and a later one would
C13_Witness ==
    \E r \in RunIds :
        /\ Answered(r, AtRecords)
        /\ Len(replies[r][AtRecords].v) = 2
        /\ replies[r][AtRecords].v[1] = <<"h","t","t","p",":","/","/","a",".","e","x","a","m","p","l","e","/","a",".","p","n","g">>
        /\ matcherHttps(replies[r][AtRecords].v[2]).ok
        /\ Done(r) /\ Unresolved(r)

\* the scheme of the first pattern of `matchers` the avatar matches, in
\* lower case; <<>> when it matches none
FirstScheme(avatar) ==
    LET hits == {i \in 0..(NumMatchers - 1) : matchers(i, avatar).ok}
    IN  IF hits = {} THEN <<>>
        ELSE toLowerCase(matchers(CHOOSE i \in hits : \A j \in hits : i <= j, avatar).g1)
\* the step a branch appends on entry, and the steps it may append after it
BranchStep(scheme) == IF scheme = <<"h","t","t","p","s">> THEN T_url ELSE scheme
BranchKinds(scheme) ==
    IF scheme = T_erc721
    THEN {T_owner, T_metadata_url_base, T_metadata_url, T_metadata, T_url_ipfs, T_url}
    ELSE IF scheme = T_erc1155
    THEN {T_balance, T_metadata_url_base, T_metadata_url_expanded, T_metadata_url,
          T_metadata, T_url_ipfs, T_url}
    ELSE {}

\* C14: once the avatar has matched a pattern and the branch of its scheme
\* has been entered (the branch's step is the second of the trail), the run
\* stays in that branch: every later step is one of that branch, and the run
\* ends either Unresolved or with the result of that very branch, never with
\* one of another scheme.
C14_NoBacktracking ==
    \A r \in RunIds :
        LET t == Trail(r)
            scheme == FirstScheme(frame[r].avatar)
        IN  Len(t) >= 2 =>
              /\ scheme \in {<<"h","t","t","p","s">>, <<"d","a","t","a">>, <<"i","p","f","s">>, T_erc721, T_erc1155}
              /\ t[2] = [type |-> BranchStep(scheme), content |-> frame[r].avatar]
              /\ \A i \in 3..Len(t) : t[i].type \in BranchKinds(scheme)
              /\ Done(r) => Unresolved(r) \/ Resolved(r)
              /\ Resolved(r) =>
                   /\ result[r].linkage = t
                   /\ scheme \in {<<"h","t","t","p","s">>, <<"d","a","t","a">>} => result[r].url = frame[r].avatar
                   /\ scheme = <<"i","p","f","s">> =>
                        StartsWith(result[r].url, ipfs \o <<"/","i","p","f","s","/">>)
                   /\ scheme \in {T_erc721, T_erc1155} =>
                        /\ HasStep(t, T_metadata)
                        /\ t[Len(t)] = [type |-> T_url, content |-> result[r].url]

\* a failure inside the erc721 branch: the avatar has too many components
C14_Witness ==
    \E r \in RunIds :
        /\ Done(r) /\ Unresolved(r)
        /\ Len(Trail(r)) = 2 /\ Trail(r)[2].type = T_erc721
        /\ Len(calls[r]) = AtRecords

\* the kinds of external operation a run issues, in the order of the code
OperationOrder == <<"info", "records", "call", "call", "fetchJson">>
Outstanding(r) == Len(calls[r]) - Len(replies[r])

\* C15: within a run at most one external operation is outstanding at any
\* time, each is issued once and in the order info fetch, record fetch,
\* verification call, metadata-URI call, metadata fetch (so at most two
\* on-chain calls and one metadata fetch, never repeated), an operation is
\* issued only when the one before it has been answered, and the https, data
\* and ipfs branches issue no on-chain call and no metadata fetch.
C15_OneChainOfOperations ==
    /\ [](\A r \in RunIds :
            /\ Outstanding(r) \in {0, 1}
            /\ Outstanding(r) = 1 <=> pc[r] \notin {"idle", "done"}
            /\ Len(calls[r]) <= Len(OperationOrder)
            /\ \A k \in 1..Len(calls[r]) : calls[r][k].op = OperationOrder[k]
            /\ \A k \in 1..Len(calls[r]) : \A j \in 1..Len(calls[r]) :
                  calls[r][k] = calls[r][j] => k = j
            /\ CallsWithSelector(r, Sel_ownerOf) \cup CallsWithSelector(r, Sel_balanceOf)
                  \subseteq {AtVerify}
            /\ CallsWithSelector(r, Sel_tokenURI) \cup CallsWithSelector(r, Sel_uri)
                  \subseteq {AtUri}
            /\ Fetches(r) \subseteq {AtFetch}
            /\ Len(Trail(r)) >= 2 /\ Trail(r)[2].type \in {T_url, T_data, T_ipfs} =>
                  Len(calls[r]) = AtRecords)
    /\ [][\A r \in RunIds :
            /\ Len(calls'[r]) \in {Len(calls[r]), Len(calls[r]) + 1}
            /\ SubSeq(calls'[r], 1, Len(calls[r])) = calls[r]
            /\ Len(calls'[r]) > Len(calls[r]) /\ calls[r] # <<>> =>
                  /\ Len(replies'[r]) = Len(calls[r])
                  /\ ~replies'[r][Len(calls[r])].throws]_vars

\* a run that has made both on-chain calls and the metadata fetch
C15_Witness ==
    \E r \in RunIds :
        /\ Done(r) /\ Len(calls[r]) = AtFetch
        /\ frame[r].scheme = T_erc1155

\* C16: under every interleaving of concurrent runs, what a run returns and
\* its trail are those of the same run executed alone against the same
\* answers: a step of a run leaves every other run, its trail included, as it
\* was, and takes the run to the state that its own state and the answer
\* give when executed alone; the trail begins with the run's own account step
\* and no two runs share a trail.
C16_RunsIsolated ==
    /\ [](\A r \in RunIds :
            /\ pc[r] # "idle" =>
                 Trail(r)[1] = [type |-> T_account, content |-> AccountName(r)]
            /\ Resolved(r) => result[r].linkage = Trail(r)
            /\ \A q \in RunIds : q # r => linkage[q] # linkage[r])
    /\ [][\A r \in RunIds :
            \/ RunUnchanged(r)
            \/ /\ \A q \in RunIds : q # r => RunUnchanged(q)
               /\ Cur(r)' = IF pc[r] = "idle" THEN Enter(FreshRun, AccountName(r))
                             ELSE Resume(Cur(r), replies'[r][Len(replies'[r])], ipfs)]_vars

\* both runs have resolved, through different branches, with answers that
\* arrived interleaved
C16_Witness ==
    /\ Resolved(1) /\ Resolved(2)
    /\ Len(result[1].linkage) = 2
    /\ Len(result[2].linkage) = 8

IsPrefix(s, t) == Len(s) <= Len(t) /\ SubSeq(t, 1, Len(s)) = s

\* C17: the trail of a run only grows by appending (the trail before a step
\* is a prefix of the trail after it), its first step is always
\* {account, <account name>}, and a trail reaches the caller only in a
\* ResolvedAvatar, whole and together with a url: an Unresolved outcome
\* carries no trail.
C17_TrailAppendOnly ==
    /\ [](\A r \in RunIds :
            /\ Trail(r) # <<>> =>
                 Trail(r)[1] = [type |-> T_account, content |-> AccountName(r)]
            /\ pc[r] # "idle" => Trail(r) # <<>>
            /\ Unresolved(r) => result[r].linkage = <<>> /\ result[r].url = <<>>
            /\ result[r].kind = "pending" => result[r].linkage = <<>>
            /\ Resolved(r) => /\ result[r].linkage = Trail(r)
                              /\ Len(Trail(r)) >= 2
                              /\ result[r].url # <<>>)
    /\ [][\A r \in RunIds :
            IsPrefix(Trail(r), heap'[linkage'[r]])]_vars

\* a run that failed after its trail had grown to six steps
C17_Witness ==
    \E r \in RunIds :
        /\ Done(r) /\ Unresolved(r)
        /\ Len(Trail(r)) = 6

\* the number a tokenId text denotes (decimal, or hexadecimal after 0x),
\* read digit by digit
RECURSIVE NatOfDigits(_, _)
NatOfDigits(ds, base) ==
    IF ds = <<>> THEN 0
    ELSE base * NatOfDigits(SubSeq(ds, 1, Len(ds) - 1), base)
         + (IF base = 16 THEN hexVal(lowerChar(ds[Len(ds)])) ELSE digitVal(ds[Len(ds)]))
TokenIdNumber(text) ==
    IF StartsWithCI(text, S_0x) THEN NatOfDigits(SubSeq(text, 3, Len(text)), 16)
    ELSE NatOfDigits(text, 10)
\* that number as a 32-byte big-endian word, in hex digits
TokenIdWord(r) == AbiWordDigits(TokenIdNumber(frame[r].comps[2]))
OnChainCalls(r) == {k \in 1..Len(calls[r]) : calls[r][k].op = "call"}

\* C18: in every on-chain run the tokenId is one 32-byte big-endian word, and
\* every call of the run carries that word and goes to the contract address
\* of the avatar: ownerOf data is 0x6352211e + word, balanceOf data is
\* 0x00fdd58e + the owner key left-padded to 32 bytes + word, and the
\* metadata-URI data is 0xc87b56dd + word (ERC-721) or 0x0e89341c + word
\* (ERC-1155).
C18_OneTokenIdWord ==
    \A r \in RunIds : \A k \in OnChainCalls(r) :
        LET word == TokenIdWord(r)
            c == calls[r][k]
            owner32 == Zeros(24) \o toLowerCase(SubSeq(frame[r].owner, 3, Len(frame[r].owner)))
        IN  /\ k \in {AtVerify, AtUri}
            /\ Len(word) = 2 * WordSize
            /\ toLowerCase(frame[r].tokenId) = S_0x \o word
            /\ toLowerCase(c.to) = toLowerCase(frame[r].comps[1])
            /\ c.to = frame[r].addr
            /\ \A j \in OnChainCalls(r) : calls[r][j].to = c.to
            /\ k = AtVerify /\ frame[r].scheme = T_erc721 =>
                  c.data = Sel_ownerOf \o word
            /\ k = AtVerify /\ frame[r].scheme = T_erc1155 =>
                  /\ Len(frame[r].owner) = 42
                  /\ c.data = Sel_balanceOf \o owner32 \o word
            /\ k = AtUri =>
                  c.data = (IF frame[r].scheme = T_erc721 THEN Sel_tokenURI ELSE Sel_uri) \o word

\* both calls of an ERC-1155 run whose tokenId was written in hexadecimal
C18_Witness ==
    \E r \in RunIds :
        /\ OnChainCalls(r) = {AtVerify, AtUri}
        /\ frame[r].scheme = T_erc1155
        /\ frame[r].comps[2] = <<"0","x","A","B">>

\* Return buffers handed to _parseBytes with the position `start` before any
\* run starts, besides the answer of the metadata-URI call, which the run
\* decodes from 0 when it arrives.
ParseBuffers ==
    { [buf |-> AbiString(<<"f","o","o">>), start |-> 0],
      [buf |-> AbiString(<<>>), start |-> 0],
      [buf |-> AbiWord(7) \o AbiWordDigits(2 * WordSize) \o AbiWordDigits(3)
                 \o <<"6","6","6","f","6","f">> \o Zeros(2 * WordSize - 6), start |-> WordSize],
      [buf |-> AbiWord(WordSize) \o AbiWordDigits(5) \o <<"6","1","6","2">>, start |-> 0],
      [buf |-> AbiWord(WordSize), start |-> 0],
      [buf |-> S_0x \o <<"0","0">>, start |-> 0],
      [buf |-> S_0x \o <<"8">> \o Zeros(2 * WordSize - 1), start |-> 0],
      [buf |-> S_0x, start |-> 0] }
ParseInputs(r) ==
    (IF NoRunStarted THEN ParseBuffers ELSE {}) \cup
        {[buf |-> replies[r][k].v, start |-> 0] :
            k \in {k \in {AtUri} : Answered(r, k) /\ Len(replies[r]) = k}}

\* the buffer holds a whole 32-byte word at byte position `at`, and the word
\* is below 2^16; its value
HoldsWord(buf, at) ==
    /\ Len(buf) >= 2 + 2 * (at + WordSize)
    /\ SubSeq(buf, 3 + 2 * at, 2 * (at + WordSize) - 2) = Zeros(2 * WordSize - 4)
WordAt(buf, at) ==
    NatOfDigits(SubSeq(buf, 2 * (at + WordSize) - 1, 2 + 2 * (at + WordSize)), 16)
WellFormed(in) ==
    /\ in.buf # S_0x
    /\ Len(in.buf) % 2 = 0
    /\ HoldsWord(in.buf, in.start)
    /\ HoldsWord(in.buf, WordAt(in.buf, in.start))

UndecodableAnswers ==
    { S_0x,
      AbiWord(WordSize) \o AbiWordDigits(2) \o <<"f","f","4","1">>,
      AbiWord(WordSize) }

\* C20: when the metadata-URI call returns '0x' or bytes that cannot be
\* decoded as a string, the string decode gives no value and does not raise,
\* and the run ends Unresolved with no metadata-url-base step and no metadata
\* fetch.
C20_UndecodableUriEnds ==
    \A r \in RunIds :
        /\ NoRunStarted => \A v \in UndecodableAnswers : IsNull(parseString(v, 0))
        /\ Answered(r, AtUri) /\ replies[r][AtUri].v \in UndecodableAnswers =>
              /\ Done(r) /\ Unresolved(r)
              /\ ~HasStep(Trail(r), T_metadata_url_base)
              /\ ~HasStep(Trail(r), T_metadata_url)
              /\ Fetches(r) = {}
              /\ Len(calls[r]) = AtUri
              /\ frame[r].metadataUrl = <<>>

\* the uri call of an ERC-1155 run answered with bytes that are not UTF-8
C20_Witness ==
    \E r \in RunIds :
        /\ Answered(r, AtUri)
        /\ replies[r][AtUri].v = AbiWord(WordSize) \o AbiWordDigits(2) \o <<"f","f","4","1">>
        /\ frame[r].scheme = T_erc1155
        /\ Done(r)

\* the last step of a trail
LastStep(t) == t[Len(t)]
\* the fetched metadata document has a string for its image
StringImage(r) ==
    Answered(r, AtFetch) /\ IsStringValue(imageOf(replies[r][AtFetch].v))
\* What is said of a string image: a direct image is returned unchanged with
\* no url-ipfs step; any other image that matches the ipfs:// pattern gets a
\* url-ipfs step holding it and is returned translated; any other ends the
\* run Unresolved.
ImageContract(r, direct) ==
    LET image == ImageText(r)
        t == Trail(r)
    IN  /\ Done(r)
        /\ IF direct
           THEN /\ Resolved(r) /\ result[r].url = image
                /\ ~HasStep(t, T_url_ipfs)
                /\ LastStep(t) = [type |-> T_url, content |-> image]
           ELSE IF matcherIpfs(image).ok
           THEN /\ Resolved(r)
                /\ t[Len(t) - 1] = [type |-> T_url_ipfs, content |-> image]
                /\ LastStep(t) = [type |-> T_url, content |-> result[r].url]
                /\ IpfsContract(image, DefaultGateway, FALSE, result[r].url, TRUE)
           ELSE /\ Unresolved(r)
                /\ ~HasStep(t, T_url_ipfs) /\ ~HasStep(t, T_url)

\* C21, as stated: for a metadata document whose image is a string, an image
\* that begins with https:// or data: is returned unchanged with no url-ipfs
\* step; otherwise, if it matches the ipfs:// pattern, a url-ipfs step
\* holding it is appended and its gateway translation returned; otherwise
\* the run ends Unresolved.
C21_ImageByPrefix ==
    \A r \in RunIds :
        StringImage(r) =>
            ImageContract(r, StartsWith(ImageText(r), <<"h","t","t","p","s",":","/","/">>)
                             \/ StartsWith(ImageText(r), <<"d","a","t","a",":">>))

\* C21, amended: the same with https:// and data: compared without regard
\* to letter case.
C21_ImageByPrefixAnyCase ==
    \A r \in RunIds : StringImage(r) => ImageContract(r, ImageIsDirect(r))

\* an image in another letter case of the ipfs:// pattern has been translated
C21_Witness ==
    \E r \in RunIds :
        /\ StringImage(r)
        /\ ImageText(r) = <<"I","P","F","S",":","/","/","i","p","f","s","/","Q","m","I","m","g">>
        /\ Resolved(r)
        /\ result[r].url = DefaultGateway \o <<"/","i","p","f","s","/","Q","m","I","m","g">>

\* The parts of an eip155 reference: the standard in lower case and the
\* components of what follows `<erc-standard>:`
Standard(avatar) == toLowerCase(matcherEip155(avatar).g1)
Components(avatar) == split(matcherEip155(avatar).g2, "/")
SupportedStandard(avatar) == Standard(avatar) \in {T_erc721, T_erc1155}
\* the reference has not exactly two components, or its contract address or
\* its tokenId cannot be parsed (the tokenId into a 32-byte word)
BadComponents(avatar) ==
    \/ Len(Components(avatar)) # 2
    \/ getAddressThrows(Components(avatar)[1])
    \/ BigNumberFromThrows(Components(avatar)[2])
    \/ hexZeroPadThrows(BigNumberFrom(Components(avatar)[2]), WordSize)
Eip155Avatar(r) ==
    /\ Answered(r, AtRecords)
    /\ replies[r][AtRecords].v # <<>>
    /\ matcherEip155(replies[r][AtRecords].v[1]).ok

\* C22: a malformed eip155 avatar reference ends the run Unresolved before
\* any on-chain call is issued: when the part after `<erc-standard>:` does
\* not split on '/' into exactly two components, when the contract address or
\* the tokenId cannot be parsed, and when the standard is neither erc721 nor
\* erc1155; in the last case no scheme step is appended, in the others the
\* scheme step is the last of the trail.
C22_MalformedEip155Ends ==
    \A r \in RunIds :
        Eip155Avatar(r) =>
            LET avatar == replies[r][AtRecords].v[1]
            IN  /\ ~SupportedStandard(avatar) =>
                      /\ Done(r) /\ Unresolved(r)
                      /\ OnChainCalls(r) = {} /\ Len(calls[r]) = AtRecords
                      /\ Kinds(Trail(r)) = <<T_account>>
                /\ SupportedStandard(avatar) /\ BadComponents(avatar) =>
                      /\ Done(r) /\ Unresolved(r)
                      /\ OnChainCalls(r) = {} /\ Len(calls[r]) = AtRecords
                      /\ Kinds(Trail(r)) = <<T_account, Standard(avatar)>>
                      /\ LastStep(Trail(r)).content = avatar

\* a reference with three components has ended its run
C22_Witness ==
    \E r \in RunIds :
        /\ Eip155Avatar(r)
        /\ replies[r][AtRecords].v[1]
              = <<"e","i","p","1","5","5",":","1","/","e","r","c","7","2","1",":","0","x","2","6","5","3","8","5","c","7","f","4","1","3","2","2","2","8","A","0","d","5","4","E","B","1","A","9","e","7","4","6","0","b","9","1","c","0","c","C","6","8","/","7","/","8">>
        /\ Done(r) /\ Unresolved(r)
        /\ Len(Trail(r)) = 2

\* the positions at which pat occurs in s
Occurrences(s, pat) ==
    {i \in 1..(Len(s) - Len(pat) + 1) : SubSeq(s, i, i + Len(pat) - 1) = pat}
IdMark == <<"{","i","d","}">>

\* C23: on the ERC-1155 path only the first occurrence of {id} in the decoded
\* uri is substituted: a uri with no {id} is left unchanged and a
\* metadata-url-expanded step equal to the base is still appended, and a uri
\* with two or more occurrences keeps every occurrence after the first as
\* the literal text {id}.
C23_FirstIdOnly ==
    \A r \in RunIds :
        frame[r].scheme = T_erc1155 =>
            \A i \in 1..Len(Trail(r)) :
                Trail(r)[i].type = T_metadata_url_base =>
                    LET t == Trail(r)
                        base == t[i].content
                        occ == Occurrences(base, IdMark)
                        id == SubSeq(frame[r].tokenId, 3, Len(frame[r].tokenId))
                        first == CHOOSE p \in occ : \A q \in occ : p <= q
                    IN  /\ Len(t) > i
                        /\ t[i + 1].type = T_metadata_url_expanded
                        /\ occ = {} => t[i + 1].content = base
                        /\ occ # {} =>
                              /\ t[i + 1].content =
                                    SubSeq(base, 1, first - 1) \o id
                                        \o SubSeq(base, first + Len(IdMark), Len(base))
                              /\ Occurrences(t[i + 1].content, IdMark) =
                                    {q + Len(id) - Len(IdMark) : q \in occ \ {first}}

\* a uri with two occurrences has been expanded and keeps the second
C23_Witness ==
    \E r \in RunIds :
        /\ frame[r].scheme = T_erc1155
        /\ Answered(r, AtUri)
        /\ replies[r][AtUri].v = AbiString(<<"h","t","t","p","s",":","/","/","m",".","e","x","a","m","p","l","e","/","{","i","d","}","/","{","i","d","}">>)
        /\ HasStep(Trail(r), T_metadata_url_expanded)
        /\ Cardinality(Occurrences(frame[r].metadataUrl, IdMark)) = 1

\* a uri without {id} has got its metadata-url-expanded step
C23_WitnessNoId ==
    \E r \in RunIds :
        /\ frame[r].scheme = T_erc1155
        /\ Answered(r, AtUri)
        /\ replies[r][AtUri].v = AbiString(<<"h","t","t","p","s",":","/","/","m",".","e","x","a","m","p","l","e","/","7",".","j","s","o","n">>)
        /\ HasStep(Trail(r), T_metadata_url_expanded)

====
